---------------------------- MODULE Spec2Model ----------------------------
(***************************************************************************)
(* A model of the equality engine of scientificgo/testutil (src/equal.go,  *)
(* lines 1-357, the EqualResult revision) and of the case-driven           *)
(* dispatcher Test built on it (src/unnamed/part_011, src/cases.go,        *)
(* src/func.go).                                                           *)
(*                                                                         *)
(* Go values are modelled as records tagged with their reflect.Kind (field *)
(* k).  float64 values are modelled as IEEE-754 values: NaN, +/-Inf and    *)
(* signed finite values n/d.  The finite inputs are small dyadic rationals *)
(* (d a power of two), on which float64 subtraction, multiplication, Abs   *)
(* and comparison are exact, so the arithmetic below is the arithmetic the *)
(* program performs on those inputs.  Division (used only for the reported *)
(* RelativeError) is kept as the exact quotient.                           *)
(***************************************************************************)
EXTENDS Integers, Sequences, FiniteSets, TLC

VARIABLES
    xv,         \* the actual value handed to Equal
    yv,         \* the expected value handed to Equal
    tolerance,  \* the caller-supplied tolerance (any value)
    tolv,       \* the float64 tolerance Equal hands to equal
    res,        \* the EqualResult returned
    pc,         \* "call" before Equal has run, "done" after
    now,        \* time.Now().Unix(), the seed of equalFunc's random source
    prev,       \* the EqualResult of the previous invocation of Equal
    again,      \* TRUE once Equal has been invoked again on the same arguments
    cases,      \* the case table handed to Test
    funcs,      \* the functions handed to Test
    tpc,        \* where Test stands ("idle" when Test is not running)
    loc,        \* the local variables of Test and of the running sub-test
    log,        \* what Test has done so far: sub-tests, invocations, reports
    anyst       \* Any and All: arguments, position, locals, results, invocations

vars ==
    <<xv, yv, tolerance, tolv, res, pc, now, prev, again, cases, funcs, tpc, loc, log, anyst>>
engineVars == <<xv, yv, res, pc, prev, again>>
testVars == <<cases, funcs, tpc, loc, log>>

(***************************************************************************)
(* Bounds of the model.                                                    *)
(***************************************************************************)
\* finite float inputs are n / Scale with n in 0..MaxNum, Scale = 2^ScaleExp
MaxNum == 8
ScaleExp == 2
\* integer inputs lie in -MaxInt..MaxInt
MaxInt == 2
\* sequences, records and maps have at most MaxLen elements
MaxLen == 2
\* a case table has at most MaxCases cases
MaxCases == 2
\* the clock reads 0..MaxSeed
MaxSeed == 2
\* the number of trials of a comparison of two functions (1000 in equalFunc,
\* 100 in quick.CheckEqual)
NumTrials == 2

RECURSIVE Pow2(_)
Pow2(e) == IF e = 0 THEN 1 ELSE 2 * Pow2(e - 1)

Scale == Pow2(ScaleExp)

Abs(i) == IF i < 0 THEN -i ELSE i

(***************************************************************************)
(* float64                                                                 *)
(***************************************************************************)
NaN(neg) == [c |-> "nan", neg |-> neg, n |-> 0, d |-> 1]
Inf(neg) == [c |-> "inf", neg |-> neg, n |-> 0, d |-> 1]
Fin(neg, n, d) == [c |-> "fin", neg |-> neg, n |-> n, d |-> d]
\* the float64 nearest to the integer i (exact for |i| < 2^53)
FromInt(i) == Fin(i < 0, Abs(i), 1)
PosZero == Fin(FALSE, 0, 1)
NegZero == Fin(TRUE, 0, 1)

IsNaN(f) == f.c = "nan"
\* math.IsInf(f, 0)
IsInf(f) == f.c = "inf"
Signbit(f) == f.neg
IsZero(f) == f.c = "fin" /\ f.n = 0
\* signed numerator of a finite value
SNum(f) == IF f.neg THEN -f.n ELSE f.n

\* Go's x == y on float64
FEq(x, y) ==
    CASE IsNaN(x) \/ IsNaN(y) -> FALSE
      [] IsInf(x) \/ IsInf(y) -> IsInf(x) /\ IsInf(y) /\ x.neg = y.neg
      [] OTHER -> SNum(x) * y.d = SNum(y) * x.d

\* x <= y on the extended reals (neither is NaN)
LeqExt(x, y) ==
    CASE IsInf(x) -> x.neg \/ (IsInf(y) /\ ~y.neg)
      [] IsInf(y) -> ~y.neg
      [] OTHER -> SNum(x) * y.d <= SNum(y) * x.d

\* Go's x <= y and x < y on float64
FLeq(x, y) == ~IsNaN(x) /\ ~IsNaN(y) /\ LeqExt(x, y)
FLess(x, y) == ~IsNaN(x) /\ ~IsNaN(y) /\ LeqExt(x, y) /\ ~LeqExt(y, x)

\* math.Abs
FAbs(x) == [x EXCEPT !.neg = FALSE]

\* Go's x - y on float64
FSub(x, y) ==
    CASE IsNaN(x) \/ IsNaN(y) -> NaN(FALSE)
      [] IsInf(x) /\ IsInf(y) -> IF x.neg = y.neg THEN NaN(FALSE) ELSE x
      [] IsInf(x) -> x
      [] IsInf(y) -> Inf(~y.neg)
      [] OTHER ->
            LET num == SNum(x) * y.d - SNum(y) * x.d
            IN  IF num = 0
                THEN Fin(IsZero(x) /\ IsZero(y) /\ x.neg /\ ~y.neg, 0, 1)
                ELSE Fin(num < 0, Abs(num), x.d * y.d)

\* Go's x * y on float64
FMul(x, y) ==
    CASE IsNaN(x) \/ IsNaN(y) -> NaN(FALSE)
      [] (IsInf(x) /\ IsZero(y)) \/ (IsZero(x) /\ IsInf(y)) -> NaN(FALSE)
      [] IsInf(x) \/ IsInf(y) -> Inf(x.neg # y.neg)
      [] OTHER -> Fin(x.neg # y.neg, x.n * y.n, x.d * y.d)

\* Go's x / y on float64 (the exact quotient of finite values)
FDiv(x, y) ==
    CASE IsNaN(x) \/ IsNaN(y) -> NaN(FALSE)
      [] IsInf(x) /\ IsInf(y) -> NaN(FALSE)
      [] IsInf(x) -> Inf(x.neg # y.neg)
      [] IsInf(y) -> Fin(x.neg # y.neg, 0, 1)
      [] IsZero(y) -> IF IsZero(x) THEN NaN(FALSE) ELSE Inf(x.neg # y.neg)
      [] OTHER -> Fin(x.neg # y.neg, x.n * y.d, x.d * y.n)

\* the integer square root
Isqrt(m) == CHOOSE r \in 0..m : r * r <= m /\ m < (r + 1) * (r + 1)

\* math.Hypot, as used by cmplx.Abs (exact where p^2 + q^2 is a square)
Hypot(p, q) ==
    CASE IsInf(p) \/ IsInf(q) -> Inf(FALSE)
      [] IsNaN(p) \/ IsNaN(q) -> NaN(FALSE)
      [] OTHER -> Fin(FALSE, Isqrt(p.n * p.n * q.d * q.d + q.n * q.n * p.d * p.d), p.d * q.d)


(***************************************************************************)
(* reflect.Value: a record tagged with its Kind.  A map value lists its    *)
(* keys in the order MapKeys returns them in the call at hand (Go fixes no *)
(* order, so the same Go map appears with every order of its keys).        *)
(* Struct fields are exported.  An "interface" value is an element, field  *)
(* or map value of static type interface{} holding a scalar or nil.        *)
(***************************************************************************)
Invalid == [k |-> "invalid"]
VBool(b) == [k |-> "bool", b |-> b]
VString(s) == [k |-> "string", s |-> s]
VInt(kind, i) == [k |-> kind, i |-> i]
VFloat(f) == [k |-> "float64", f |-> f]
VComplex(re, im) == [k |-> "complex128", re |-> re, im |-> im]
VSlice(e) == [k |-> "slice", e |-> e]
VArray(e) == [k |-> "array", e |-> e]
VMap(keys, vals) == [k |-> "map", keys |-> keys, vals |-> vals]
VStruct(names, fields) == [k |-> "struct", names |-> names, fields |-> fields]
VIface(e) == [k |-> "interface", dyn |-> e]
\* a function: the kinds of its parameters and results, and what it computes
\* (body "nil": the nil function of that type)
VFunc(in, out, body) == [k |-> "func", in |-> in, out |-> out, body |-> body]

IntKinds == {"int", "int64"}
RealKinds == IntKinds \cup {"float64"}
\* v.Convert(floatType).Interface().(float64) of a real-valued v
ToFloat64(v) == IF v.k = "float64" THEN v.f ELSE FromInt(v.i)
IsValid(v) == v.k # "invalid"

\* An EqualResult.  The field panic is not a field of the Go struct: it is TRUE
\* when the call did not return but panicked (the other fields then mean nothing).
EqualResult(ok, num, rel, abs, pos, len, miss) ==
    [Ok |-> ok, Numerical |-> num, RelativeError |-> rel, AbsoluteError |-> abs,
     Position |-> pos, LengthMismatch |-> len, MissingValue |-> miss, panic |-> FALSE]
\* the zero EqualResult a named result starts as
ZeroResult == EqualResult(FALSE, FALSE, Invalid, Invalid, 0, FALSE, FALSE)
\* the outcome of a call that panicked
Panicked == [ZeroResult EXCEPT !.panic = TRUE]

\* reflect.Zero(v.Type())
RECURSIVE Zero(_)
Zero(v) ==
    CASE v.k = "bool" -> VBool(FALSE)
      [] v.k = "string" -> VString("")
      [] v.k \in IntKinds -> VInt(v.k, 0)
      [] v.k = "float64" -> VFloat(PosZero)
      [] v.k = "complex128" -> VComplex(PosZero, PosZero)
      [] v.k = "slice" -> VSlice(<<>>)
      [] v.k = "array" -> VArray([i \in 1..Len(v.e) |-> Zero(v.e[i])])
      [] v.k = "map" -> VMap(<<>>, <<>>)
      [] v.k = "struct" -> VStruct(v.names, [i \in 1..Len(v.fields) |-> Zero(v.fields[i])])
      [] v.k = "interface" -> VIface(Invalid)
      [] v.k = "func" -> VFunc(v.in, v.out, "nil")

\* Go's == on two map keys of one key type
KeyEq(a, b) ==
    CASE a.k # b.k -> FALSE
      [] a.k = "float64" -> FEq(a.f, b.f)
      [] OTHER -> a = b

\* reflect.Value.MapIndex: the value stored under key, the zero Value if none
MapIndex(m, key) ==
    LET hits == {i \in 1..Len(m.keys) : KeyEq(m.keys[i], key)}
    IN  IF hits = {} THEN Invalid ELSE m.vals[CHOOSE i \in hits : TRUE]

\* reflect.DeepEqual on the values that reach equal's default case
DeepEqual(a, b) ==
    LET p == IF a.k = "interface" THEN a.dyn ELSE a
        q == IF b.k = "interface" THEN b.dyn ELSE b
    IN  CASE ~IsValid(p) \/ ~IsValid(q) -> ~IsValid(p) /\ ~IsValid(q)
          [] p.k # q.k -> FALSE
          [] p.k = "float64" -> FEq(p.f, q.f)
          [] p.k = "complex128" -> FEq(p.re, q.re) /\ FEq(p.im, q.im)
          [] OTHER -> p = q

(***************************************************************************)
(* The engine                                                              *)
(***************************************************************************)
\* validateTolerance without math.Abs on a real tolerance
validateToleranceSigned(t) ==
    LET tol == CASE t.k \in RealKinds -> ToFloat64(t)
                 [] t.k = "complex128" -> Hypot(t.re, t.im)
                 [] OTHER -> PosZero
    IN  IF IsNaN(tol) THEN PosZero ELSE tol

\* the tolerance as a float64: |t| for a real, cmplx.Abs for a complex,
\* 0 for anything else; NaN becomes 0
validateTolerance(t) ==
    LET tol == CASE t.k \in RealKinds -> FAbs(ToFloat64(t))
                 [] t.k = "complex128" -> Hypot(t.re, t.im)
                 [] OTHER -> PosZero
    IN  IF IsNaN(tol) THEN PosZero ELSE tol

\* equalFloat with the relative bound made strict
equalFloatStrict(x, y, tol) ==
    LET diff == FSub(x, y)
    IN  CASE IsNaN(x) /\ IsNaN(y) ->
                EqualResult(TRUE, TRUE, VFloat(PosZero), VFloat(diff), 0, FALSE, FALSE)
          [] ~(IsNaN(x) /\ IsNaN(y)) /\ (FEq(x, y) \/ IsInf(y)) ->
                LET ok == Signbit(x) = Signbit(y)
                IN  IF ok
                    THEN EqualResult(TRUE, TRUE, VFloat(PosZero), VFloat(PosZero), 0, FALSE, FALSE)
                    ELSE IF IsInf(y)
                    THEN EqualResult(FALSE, TRUE, VFloat(y), VFloat(y), 0, FALSE, FALSE)
                    ELSE EqualResult(FALSE, TRUE, Invalid, VFloat(diff), 0, FALSE, FALSE)
          [] OTHER ->
                IF IsZero(y)
                THEN EqualResult(FLess(FAbs(diff), FAbs(tol)), TRUE,
                                 VFloat(diff), VFloat(diff), 0, FALSE, FALSE)
                ELSE EqualResult(FLess(FAbs(diff), FAbs(FMul(y, tol))), TRUE,
                                 VFloat(FDiv(diff, y)), VFloat(diff), 0, FALSE, FALSE)

\* equalFloat with the absolute bound at y = 0 made inclusive
equalFloatInclusive(x, y, tol) ==
    LET diff == FSub(x, y)
    IN  CASE IsNaN(x) /\ IsNaN(y) ->
                EqualResult(TRUE, TRUE, VFloat(PosZero), VFloat(diff), 0, FALSE, FALSE)
          [] ~(IsNaN(x) /\ IsNaN(y)) /\ (FEq(x, y) \/ IsInf(y)) ->
                LET ok == Signbit(x) = Signbit(y)
                IN  IF ok
                    THEN EqualResult(TRUE, TRUE, VFloat(PosZero), VFloat(PosZero), 0, FALSE, FALSE)
                    ELSE IF IsInf(y)
                    THEN EqualResult(FALSE, TRUE, VFloat(y), VFloat(y), 0, FALSE, FALSE)
                    ELSE EqualResult(FALSE, TRUE, Invalid, VFloat(diff), 0, FALSE, FALSE)
          [] OTHER ->
                IF IsZero(y)
                THEN EqualResult(FLeq(FAbs(diff), FAbs(tol)), TRUE,
                                 VFloat(diff), VFloat(diff), 0, FALSE, FALSE)
                ELSE EqualResult(FLeq(FAbs(diff), FAbs(FMul(y, tol))), TRUE,
                                 VFloat(FDiv(diff, y)), VFloat(diff), 0, FALSE, FALSE)

\* equalFloat without the sign-bit test on x == y
equalFloatUnsigned(x, y, tol) ==
    LET diff == FSub(x, y)
    IN  CASE IsNaN(x) /\ IsNaN(y) ->
                EqualResult(TRUE, TRUE, VFloat(PosZero), VFloat(diff), 0, FALSE, FALSE)
          [] ~(IsNaN(x) /\ IsNaN(y)) /\ (FEq(x, y) \/ IsInf(y)) ->
                LET ok == FEq(x, y)
                IN  IF ok
                    THEN EqualResult(TRUE, TRUE, VFloat(PosZero), VFloat(PosZero), 0, FALSE, FALSE)
                    ELSE EqualResult(FALSE, TRUE, VFloat(y), VFloat(y), 0, FALSE, FALSE)
          [] OTHER ->
                IF IsZero(y)
                THEN EqualResult(FLess(FAbs(diff), FAbs(tol)), TRUE,
                                 VFloat(diff), VFloat(diff), 0, FALSE, FALSE)
                ELSE EqualResult(FLeq(FAbs(diff), FAbs(FMul(y, tol))), TRUE,
                                 VFloat(FDiv(diff, y)), VFloat(diff), 0, FALSE, FALSE)

equalFloat(x, y, tol) ==
    LET diff == FSub(x, y)
    IN  CASE IsNaN(x) /\ IsNaN(y) ->
                EqualResult(TRUE, TRUE, VFloat(PosZero), VFloat(diff), 0, FALSE, FALSE)
          [] ~(IsNaN(x) /\ IsNaN(y)) /\ (FEq(x, y) \/ IsInf(y)) ->
                LET ok == Signbit(x) = Signbit(y)
                IN  IF ok
                    THEN EqualResult(TRUE, TRUE, VFloat(PosZero), VFloat(PosZero), 0, FALSE, FALSE)
                    ELSE IF IsInf(y)
                    THEN EqualResult(FALSE, TRUE, VFloat(y), VFloat(y), 0, FALSE, FALSE)
                    ELSE EqualResult(FALSE, TRUE, Invalid, VFloat(diff), 0, FALSE, FALSE)
          [] OTHER ->
                IF IsZero(y)
                THEN EqualResult(FLess(FAbs(diff), FAbs(tol)), TRUE,
                                 VFloat(diff), VFloat(diff), 0, FALSE, FALSE)
                ELSE EqualResult(FLeq(FAbs(diff), FAbs(FMul(y, tol))), TRUE,
                                 VFloat(FDiv(diff, y)), VFloat(diff), 0, FALSE, FALSE)

equalComplex(x, y, tol) ==
    LET rr == equalFloat(x.re, y.re, tol)
        ir == equalFloat(x.im, y.im, tol)
    IN  \* Interface() of the zero Value panics
        IF ~IsValid(rr.RelativeError) \/ ~IsValid(ir.RelativeError)
        THEN Panicked
        ELSE EqualResult(rr.Ok /\ ir.Ok, TRUE,
                         VComplex(rr.RelativeError.f, ir.RelativeError.f),
                         VComplex(rr.AbsoluteError.f, ir.AbsoluteError.f),
                         0, FALSE, FALSE)

RECURSIVE equal(_, _, _)
RECURSIVE sliceLoop(_, _, _, _)
RECURSIVE keyLoop(_, _, _, _)
RECURSIVE mapLoop(_, _, _, _)
RECURSIVE structLoop(_, _, _, _)
RECURSIVE sliceLoopUnpositioned(_, _, _, _)
RECURSIVE mapLoopAligned(_, _, _, _)
RECURSIVE structLoopValuesFirst(_, _, _, _)

\* equalSlice leaving out res.Position = i
sliceLoopUnpositioned(x, y, tol, i) ==
    LET r == equal(x.e[i + 1], y.e[i + 1], tol)
    IN  IF r.panic \/ ~r.Ok THEN r
        ELSE IF i + 1 < Len(x.e) THEN sliceLoopUnpositioned(x, y, tol, i + 1)
        ELSE r

equalSliceUnpositioned(x, y, tol) ==
    IF Len(x.e) # Len(y.e)
    THEN [ZeroResult EXCEPT !.LengthMismatch = TRUE]
    ELSE IF Len(x.e) = 0 THEN [ZeroResult EXCEPT !.Ok = TRUE]
    ELSE sliceLoopUnpositioned(x, y, tol, 0)

\* the loop of equalSlice from index i (0-based), all earlier elements equal
sliceLoop(x, y, tol, i) ==
    LET r == equal(x.e[i + 1], y.e[i + 1], tol)
    IN  IF r.panic THEN r
        ELSE IF ~r.Ok THEN [r EXCEPT !.Position = i]
        ELSE IF i + 1 < Len(x.e) THEN sliceLoop(x, y, tol, i + 1)
        ELSE r

equalSlice(x, y, tol) ==
    IF Len(x.e) # Len(y.e)
    THEN [ZeroResult EXCEPT !.LengthMismatch = TRUE]
    ELSE IF Len(x.e) = 0 THEN [ZeroResult EXCEPT !.Ok = TRUE]
    ELSE sliceLoop(x, y, tol, 0)

\* equalMap matching the i-th key of y with the i-th key of x only
mapLoopAligned(x, y, tol, i) ==
    LET ykey == y.keys[i + 1]
        found == equal(x.keys[i + 1], ykey, tol)
    IN  IF found.panic THEN found
        ELSE IF ~found.Ok
        THEN [found EXCEPT !.Position = i, !.MissingValue = TRUE]
        ELSE LET r == equal(MapIndex(x, ykey), MapIndex(y, ykey), tol)
             IN  IF r.panic THEN r
                 ELSE IF ~r.Ok THEN [r EXCEPT !.Position = i]
                 ELSE IF i + 1 < Len(y.keys) THEN mapLoopAligned(x, y, tol, i + 1)
                 ELSE r

equalMapAligned(x, y, tol) ==
    IF Len(x.keys) # Len(y.keys)
    THEN [ZeroResult EXCEPT !.LengthMismatch = TRUE]
    ELSE IF Len(y.keys) = 0 THEN [ZeroResult EXCEPT !.Ok = TRUE]
    ELSE mapLoopAligned(x, y, tol, 0)

\* the inner loop of equalMap: the result of comparing ykey with the keys of
\* x from position j (1-based) on, stopping at the first that matches
keyLoop(xkeys, ykey, tol, j) ==
    LET r == equal(xkeys[j], ykey, tol)
    IN  IF r.panic \/ r.Ok \/ j = Len(xkeys) THEN r ELSE keyLoop(xkeys, ykey, tol, j + 1)

\* the outer loop of equalMap from index i (0-based) of the keys of y
mapLoop(x, y, tol, i) ==
    LET ykey == y.keys[i + 1]
        found == keyLoop(x.keys, ykey, tol, 1)
    IN  IF found.panic THEN found
        ELSE IF ~found.Ok
        THEN [found EXCEPT !.Position = i, !.MissingValue = TRUE]
        ELSE LET r == equal(MapIndex(x, ykey), MapIndex(y, ykey), tol)
             IN  IF r.panic THEN r
                 ELSE IF ~r.Ok THEN [r EXCEPT !.Position = i]
                 ELSE IF i + 1 < Len(y.keys) THEN mapLoop(x, y, tol, i + 1)
                 ELSE r

equalMap(x, y, tol) ==
    IF Len(x.keys) # Len(y.keys)
    THEN [ZeroResult EXCEPT !.LengthMismatch = TRUE]
    ELSE IF Len(y.keys) = 0 THEN [ZeroResult EXCEPT !.Ok = TRUE]
    ELSE mapLoop(x, y, tol, 0)

\* equalStruct comparing the values of field i before its names
structLoopValuesFirst(x, y, tol, i) ==
    LET r == equal(x.fields[i + 1], y.fields[i + 1], tol)
    IN  IF r.panic THEN r
        ELSE IF ~r.Ok THEN [r EXCEPT !.Position = i]
        ELSE IF x.names[i + 1] # y.names[i + 1]
        THEN [ZeroResult EXCEPT !.MissingValue = TRUE, !.Position = i]
        ELSE IF i + 1 < Len(x.fields) THEN structLoopValuesFirst(x, y, tol, i + 1)
        ELSE r

equalStructValuesFirst(x, y, tol) ==
    IF Len(x.fields) # Len(y.fields)
    THEN [ZeroResult EXCEPT !.LengthMismatch = TRUE]
    ELSE IF Len(x.fields) = 0 THEN [ZeroResult EXCEPT !.Ok = TRUE]
    ELSE structLoopValuesFirst(x, y, tol, 0)

\* the loop of equalStruct from field i (0-based)
structLoop(x, y, tol, i) ==
    IF x.names[i + 1] # y.names[i + 1]
    THEN [ZeroResult EXCEPT !.MissingValue = TRUE, !.Position = i]
    ELSE LET r == equal(x.fields[i + 1], y.fields[i + 1], tol)
         IN  IF r.panic THEN r
             ELSE IF ~r.Ok THEN [r EXCEPT !.Position = i]
             ELSE IF i + 1 < Len(x.fields) THEN structLoop(x, y, tol, i + 1)
             ELSE r

equalStruct(x, y, tol) ==
    IF Len(x.fields) # Len(y.fields)
    THEN [ZeroResult EXCEPT !.LengthMismatch = TRUE]
    ELSE IF Len(x.fields) = 0 THEN [ZeroResult EXCEPT !.Ok = TRUE]
    ELSE structLoop(x, y, tol, 0)

(***************************************************************************)
(* Functions and their comparison on generated arguments                   *)
(***************************************************************************)
\* the float64 values the random source produces, in the order of the source
\* seeded with 0
Samples == <<Fin(FALSE, Scale, Scale), Fin(FALSE, 2 * Scale, Scale), Fin(TRUE, Scale, Scale)>>

\* the j-th draw (0-based) of rand.New(rand.NewSource(seed))
Rand(seed, j) == Samples[((seed + j) % Len(Samples)) + 1]

\* quick.Value produces a value for this kind (none for a channel)
Generatable(kind) == kind = "float64"

\* mockArgs in the n-th trial (0-based) of a source seeded with seed: the
\* arguments, or err if some parameter's type has no generator
mockArgs(fv, seed, n) ==
    LET nIn == Len(fv.in)
    IN  IF \E i \in 1..nIn : ~Generatable(fv.in[i])
        THEN [args |-> <<>>, err |-> TRUE]
        ELSE [args |-> [i \in 1..nIn |-> VFloat(Rand(seed, n * nIn + i - 1))], err |-> FALSE]

\* reflect.Value.Call returns (it panics for a nil function, for a wrong
\* number of arguments and for an argument of the wrong type)
CanCall(fv, args) ==
    /\ fv.k = "func"
    /\ fv.body # "nil"
    /\ Len(args) = Len(fv.in)
    /\ \A i \in 1..Len(args) : IsValid(args[i]) /\ args[i].k = fv.in[i]

\* the body of the function panics on these arguments
Panics(fv, args) == fv.body = "boom" /\ args[1].i = 0

\* the results of reflect.Value.Call
Call(fv, args) ==
    CASE fv.body = "id" -> <<args[1]>>
      [] fv.body = "abs" -> <<VFloat(FAbs(args[1].f))>>
      [] fv.body = "sq" -> <<VFloat(FMul(args[1].f, args[1].f))>>
      [] fv.body = "first" -> <<args[1]>>
      [] fv.body = "dup" -> <<args[1], VFloat(FMul(args[1].f, args[1].f))>>
      [] fv.body = "czero" -> <<VComplex(PosZero, PosZero)>>
      [] fv.body = "drain" -> <<VFloat(PosZero)>>
      [] fv.body = "noop" -> <<>>
      [] fv.body \in {"pos", "boom"} -> <<VBool(args[1].i > 0)>>
      [] fv.body = "lt" -> <<VBool(args[1].i < args[2].i)>>
      [] fv.body = "ready" -> <<VBool(TRUE)>>
      [] fv.body = "fpos" -> <<VBool(~Signbit(args[1].f))>>
      [] fv.body = "two" -> <<VBool(args[1].i > 0), VBool(TRUE)>>
      [] fv.body = "toint" -> <<args[1]>>
      [] fv.body = "noret" -> <<>>
      [] fv.body = "dupabs" -> <<args[1], VFloat(FAbs(args[1].f))>>
      [] fv.body = "cnegzero" -> <<VComplex(NegZero, PosZero)>>
      [] fv.body = "mkmap" ->
            <<VMap(<<VString("a"), VString("b")>>, <<VInt("int", 1), VInt("int", 2)>>)>>
      [] fv.body = "mkstruct" -> <<VStruct(<<"A", "B">>, <<VInt("int", 1), VInt("int", 2)>>)>>
      [] fv.body = "mkstructs" -> <<VSlice(<<VStruct(<<"A">>, <<VInt("int", 1)>>)>>)>>
      \* a result of interface type keeps the kind Interface
      [] fv.body = "boxed" -> <<VIface(args[1])>>
      [] fv.body = "boxnil" -> <<VIface(Invalid)>>

RECURSIVE checkLoop(_, _, _)
\* the loop of quick.CheckEqual from trial n: "ok", "fail" or "panic"
checkLoop(x, y, n) ==
    IF n >= NumTrials THEN "ok"
    ELSE LET m == mockArgs(x, now, n)
         IN  IF m.err THEN "fail"
             ELSE IF ~CanCall(x, m.args) \/ ~CanCall(y, m.args) THEN "panic"
             ELSE IF \E i \in 1..Len(x.out) :
                        ~DeepEqual(Call(x, m.args)[i], Call(y, m.args)[i])
             THEN "fail"
             ELSE checkLoop(x, y, n + 1)

\* quick.CheckEqual(f, g, config): functions of different types are an error
CheckEqual(x, y) ==
    IF x.in # y.in \/ x.out # y.out THEN "fail" ELSE checkLoop(x, y, 0)

RECURSIVE outLoop(_, _, _, _, _)
\* the loop over the results of one trial from index i (0-based); r0 is res
\* before the loop
outLoop(xcall, ycall, tol, i, r0) ==
    IF i >= Len(xcall) THEN r0
    ELSE IF i >= Len(ycall) THEN Panicked
    ELSE LET r == equal(xcall[i + 1], ycall[i + 1], tol)
         IN  IF r.panic \/ ~r.Ok THEN r
             ELSE outLoop(xcall, ycall, tol, i + 1, r)

RECURSIVE trialLoopNoStop(_, _, _, _, _)
\* the loop of equalFunc going on after a trial that does not agree
trialLoopNoStop(x, y, tol, n, r0) ==
    IF n >= NumTrials THEN r0
    ELSE LET m == mockArgs(x, now, n)
         IN  IF m.err THEN [r0 EXCEPT !.Ok = FALSE]
             ELSE IF ~CanCall(x, m.args) \/ ~CanCall(y, m.args) THEN Panicked
             ELSE LET r == outLoop(Call(x, m.args), Call(y, m.args), tol, 0,
                                   [r0 EXCEPT !.Ok = TRUE])
                  IN  IF r.panic THEN r
                      ELSE trialLoopNoStop(x, y, tol, n + 1, r)

RECURSIVE trialLoop(_, _, _, _, _)
\* the loop of equalFunc from trial n; r0 is res before the trial
trialLoop(x, y, tol, n, r0) ==
    IF n >= NumTrials THEN r0
    ELSE LET m == mockArgs(x, now, n)
         IN  IF m.err THEN [r0 EXCEPT !.Ok = FALSE]
             ELSE IF ~CanCall(x, m.args) \/ ~CanCall(y, m.args) THEN Panicked
             ELSE LET r == outLoop(Call(x, m.args), Call(y, m.args), tol, 0,
                                   [r0 EXCEPT !.Ok = TRUE])
                  IN  IF r.panic \/ ~r.Ok THEN r
                      ELSE trialLoop(x, y, tol, n + 1, r)

RECURSIVE trialCalls(_, _, _, _)
\* the invocations the loop of equalFunc makes from trial n on, in order
trialCalls(x, y, tol, n) ==
    IF n >= NumTrials THEN <<>>
    ELSE LET m == mockArgs(x, now, n)
         IN  IF m.err THEN <<>>
             ELSE IF ~CanCall(x, m.args) THEN <<[who |-> "x", args |-> m.args]>>
             ELSE IF ~CanCall(y, m.args)
             THEN <<[who |-> "x", args |-> m.args], [who |-> "y", args |-> m.args]>>
             ELSE LET r == outLoop(Call(x, m.args), Call(y, m.args), tol, 0,
                                   [ZeroResult EXCEPT !.Ok = TRUE])
                  IN  <<[who |-> "x", args |-> m.args], [who |-> "y", args |-> m.args]>>
                          \o (IF r.panic \/ ~r.Ok THEN <<>>
                              ELSE trialCalls(x, y, tol, n + 1))

equalFunc(x, y, tol) ==
    IF IsZero(tol)
    THEN LET c == CheckEqual(x, y)
         IN  IF c = "panic" THEN Panicked ELSE [ZeroResult EXCEPT !.Ok = (c = "ok")]
    ELSE trialLoop(x, y, tol, 0, ZeroResult)

\* equal with a nil expected value reported as a mismatch
equalNilMismatch(x, y0, tol) ==
    LET zeroErr == [ZeroResult EXCEPT !.RelativeError = VFloat(PosZero),
                                      !.AbsoluteError = VFloat(PosZero)]
    IN  CASE ~IsValid(x) \/ ~IsValid(y0) -> ZeroResult
          [] IsValid(x) /\ IsValid(y0) /\ x.k # y0.k -> zeroErr
          [] OTHER ->
                CASE x.k \in {"slice", "array"} -> equalSlice(x, y0, tol)
                  [] x.k = "map" -> equalMap(x, y0, tol)
                  [] x.k = "struct" -> equalStruct(x, y0, tol)
                  [] x.k \in RealKinds -> equalFloat(ToFloat64(x), ToFloat64(y0), tol)
                  [] x.k = "complex128" -> equalComplex(x, y0, tol)
                  [] x.k = "func" -> equalFunc(x, y0, tol)
                  [] OTHER -> [zeroErr EXCEPT !.Ok = DeepEqual(x, y0)]

equal(x, y0, tol) ==
    LET y == IF ~IsValid(y0) /\ IsValid(x) THEN Zero(x) ELSE y0
        zeroErr == [ZeroResult EXCEPT !.RelativeError = VFloat(PosZero),
                                      !.AbsoluteError = VFloat(PosZero)]
    IN  CASE ~IsValid(x) -> ZeroResult
          [] IsValid(x) /\ x.k # y.k -> zeroErr
          [] OTHER ->
                CASE x.k \in {"slice", "array"} -> equalSlice(x, y, tol)
                  [] x.k = "map" -> equalMap(x, y, tol)
                  [] x.k = "struct" -> equalStruct(x, y, tol)
                  [] x.k \in RealKinds -> equalFloat(ToFloat64(x), ToFloat64(y), tol)
                  [] x.k = "complex128" -> equalComplex(x, y, tol)
                  [] x.k = "func" -> equalFunc(x, y, tol)
                  [] OTHER -> [zeroErr EXCEPT !.Ok = DeepEqual(x, y)]

Equal(x, y, t) == equal(x, y, validateTolerance(t))

(***************************************************************************)
(* Inputs                                                                  *)
(***************************************************************************)
SeqsUpTo(S, n) == UNION {[1..m -> S] : m \in 0..n}

\* the float64 inputs: NaN, +/-Inf, +/-0 and the finite values n/Scale
Floats ==
    {NaN(FALSE), NaN(TRUE), Inf(FALSE), Inf(TRUE)}
        \cup {Fin(s, n, Scale) : s \in BOOLEAN, n \in 0..MaxNum}
One == Fin(FALSE, Scale, Scale)
Quarter == Fin(FALSE, Scale \div 4, Scale)

FloatValues == {VFloat(f) : f \in Floats}
IntValues == {VInt(kind, i) : kind \in IntKinds, i \in -MaxInt..MaxInt}
RealValues == FloatValues \cup IntValues

\* the parts of the complex inputs
Parts == {PosZero, Fin(TRUE, 0, 1), Fin(FALSE, 3, Scale), Fin(TRUE, 4, Scale), NaN(FALSE), Inf(FALSE), Inf(TRUE)}
ComplexValues == {VComplex(re, im) : re \in Parts, im \in Parts}

IsSquare(m) == Isqrt(m) * Isqrt(m) = m
\* the complex tolerances: those whose magnitude math.Hypot computes exactly
ComplexTolerances ==
    {c \in ComplexValues :
        (c.re.c = "fin" /\ c.im.c = "fin") =>
            IsSquare(c.re.n * c.re.n * c.im.d * c.im.d + c.im.n * c.im.n * c.re.d * c.re.d)}

\* what a caller may pass as the tolerance
RealTolerances == FloatValues \cup {VInt("int", i) : i \in -MaxInt..MaxInt}
OtherTolerances == {Invalid, VString("tol"), VBool(TRUE)}
Tolerances == RealTolerances \cup ComplexTolerances \cup OtherTolerances
\* the tolerances of the structural specifications
FewTolerances == {Invalid, VFloat(Quarter), VFloat(One)}

\* the elements of the sequences: one set per element type
OneAndQuarter == Fin(FALSE, Scale + 1, Scale)
FloatElems == {VFloat(One), VFloat(OneAndQuarter), VFloat(NaN(FALSE))}
IntElems == {VInt("int", 1), VInt("int", 2)}
StringElems == {VString("a"), VString("b")}
IfaceElems == {VIface(Invalid), VIface(VFloat(NaN(FALSE))), VIface(VInt("int", 1))}
ComplexElems == {VComplex(PosZero, PosZero), VComplex(NegZero, PosZero), VComplex(One, PosZero)}
InnerSlices == {VSlice(e) : e \in SeqsUpTo({VFloat(One), VFloat(OneAndQuarter)}, 1)}
ElemTypes == {FloatElems, IntElems, StringElems, IfaceElems, ComplexElems, InnerSlices}
SeqBodies == UNION {SeqsUpTo(E, MaxLen) : E \in ElemTypes}
Slices == {VSlice(e) : e \in SeqBodies}
Arrays == {VArray(e) : e \in SeqBodies}

\* records: up to MaxLen exported fields with distinct names
FieldNames == {"A", "B", "C"}
FieldValues ==
    {VInt("int", 1), VInt("int", 2),
     VStruct(<<"A">>, <<VInt("int", 1)>>), VStruct(<<"B">>, <<VInt("int", 1)>>)}
NameSeqs == {s \in SeqsUpTo(FieldNames, MaxLen) : \A i, j \in 1..Len(s) : s[i] = s[j] => i = j}
Structs == UNION {{VStruct(s, f) : f \in [1..Len(s) -> FieldValues]} : s \in NameSeqs}

\* maps: up to MaxLen keys of one key type, distinct under Go's ==, in every
\* order, with values of one type
FloatKeys == {VFloat(One), VFloat(OneAndQuarter), VFloat(NaN(FALSE))}
KeySeqs ==
    {s \in SeqsUpTo(FloatKeys, MaxLen) :
        \A i, j \in 1..Len(s) : KeyEq(s[i], s[j]) => i = j}
ZeroComplexes == {VComplex(PosZero, PosZero), VComplex(NegZero, PosZero)}
MapValueTypes == {IntElems, ZeroComplexes}
FlatMaps ==
    UNION {UNION {{VMap(s, v) : v \in [1..Len(s) -> V]} : s \in KeySeqs} : V \in MapValueTypes}
\* maps from two strings to integers, and maps holding one of them
InnerMaps ==
    {VMap(s, v) : s \in {<<VString("a"), VString("b")>>, <<VString("b"), VString("a")>>},
                  v \in [1..2 -> IntElems]}
NestedMaps == {VMap(<<VString("m")>>, <<m>>) : m \in InnerMaps}
Maps == FlatMaps \cup NestedMaps

TypeOK ==
    /\ pc \in {"idle", "call", "done"}
    /\ res.Ok \in BOOLEAN

\* the local variables of Test before it has run
NoLocals ==
    [nc |-> 0, nfc |-> 0, err |-> "nil", f1v |-> Invalid, f2v |-> Invalid,
     nIn |-> 0, nOut |-> 0, i |-> 0, in |-> <<>>, out |-> <<>>, res |-> <<>>, j |-> 0]

\* Test is not running
\* Any and All not running
AnyIdle ==
    [pc |-> "idle", via |-> "", f |-> Invalid, xs |-> <<>>, i |-> 0, l |-> 0,
     ok |-> FALSE, err |-> "nil", aok |-> FALSE, aerr |-> "nil", calls |-> <<>>]

TestIdle ==
    /\ anyst = AnyIdle
    /\ cases = Invalid
    /\ funcs = <<>>
    /\ tpc = "idle"
    /\ loc = NoLocals
    /\ log = <<>>

InitState(X, Y, T) ==
    /\ xv \in X
    /\ yv \in Y
    /\ tolerance \in T
    /\ tolv = PosZero
    /\ res = ZeroResult
    /\ pc = "call"
    /\ now = 0
    /\ prev = ZeroResult
    /\ again = FALSE
    /\ TestIdle

\* Equal(x, y, tolerance)
CallEqual ==
    /\ pc = "call"
    /\ tolv' = validateTolerance(tolerance)
    /\ res' = equal(xv, yv, validateTolerance(tolerance))
    /\ pc' = "done"
    /\ UNCHANGED <<xv, yv, tolerance, now, prev, again>>
    /\ UNCHANGED testVars
    /\ UNCHANGED anyst

Next == CallEqual

\* real numbers against real numbers, under every real tolerance
InitNum == InitState(RealValues, RealValues, RealTolerances)
SpecNum == InitNum /\ [][Next]_vars

\* every tolerance a caller may pass
TolProbes == {VFloat(f) : f \in {PosZero, One, Fin(FALSE, Scale + 1, Scale), Inf(FALSE), NaN(FALSE)}}
InitTol == InitState(TolProbes, TolProbes, Tolerances)
SpecTol == InitTol /\ [][Next]_vars

(***************************************************************************)
(* Claims about real numbers.  They are stated on the numerators and       *)
(* denominators of the inputs, not through the float64 operators above.    *)
(***************************************************************************)
Done == pc = "done"
BothReal == xv.k \in RealKinds /\ xv.k = yv.k
XF == ToFloat64(xv)
YF == ToFloat64(yv)
Finite(f) == f.c = "fin"
\* |x - y| <= t * |y| on finite x, y, t, for t >= 0
WithinRelative(x, y, t) ==
    Abs(SNum(x) * y.d - SNum(y) * x.d) * t.d * y.d <= t.n * y.n * x.d * y.d
\* the caller's tolerance is a finite real t >= 0, and t is what the engine uses
FiniteTolerance ==
    /\ tolerance.k \in RealKinds
    /\ Finite(ToFloat64(tolerance))
    /\ ~ToFloat64(tolerance).neg
RelativeCase ==
    /\ Done /\ BothReal /\ FiniteTolerance
    /\ Finite(XF) /\ Finite(YF) /\ YF.n # 0
    /\ SNum(XF) * YF.d # SNum(YF) * XF.d
\* x = y * (1 + t / 2) and x = y * (1 + 2 * t), for t in (0, 1)
TolInUnit == 0 < ToFloat64(tolerance).n /\ ToFloat64(tolerance).n < ToFloat64(tolerance).d
HalfOver ==
    LET t == ToFloat64(tolerance)
    IN  SNum(XF) * YF.d * 2 * t.d = SNum(YF) * XF.d * (2 * t.d + t.n)
DoubleOver ==
    LET t == ToFloat64(tolerance)
    IN  SNum(XF) * YF.d * t.d = SNum(YF) * XF.d * (t.d + 2 * t.n)

ZeroCase ==
    /\ Done /\ xv.k = "float64" /\ yv.k = "float64"
    /\ IsZero(yv.f) /\ ~yv.f.neg
\* |e| <= t and |e| < t on the extended reals, for t >= 0
AbsLeq(e, t) ==
    /\ ~IsNaN(e)
    /\ IF IsInf(t) THEN TRUE ELSE Finite(e) /\ e.n * t.d <= t.n * e.d
AbsLess(e, t) ==
    /\ Finite(e)
    /\ IF IsInf(t) THEN TRUE ELSE e.n * t.d < t.n * e.d

\* C3 as claimed: against the expected value 0.0, Ok holds iff |e| <= t (for
\* a finite tolerance t).
C3_AbsoluteFallbackInclusive ==
    (ZeroCase /\ Finite(tolv)) => (res.Ok <=> AbsLeq(xv.f, tolv))
\* C3, amended: against the expected value 0.0, Ok holds iff e is +0.0, or
\* e # 0 and |e| < t; -0.0 and |e| = t # 0 are rejected.
C3_AbsoluteFallback ==
    ZeroCase =>
        (res.Ok <=> IF IsZero(xv.f) THEN ~xv.f.neg ELSE AbsLess(xv.f, tolv))
\* a nonzero e with |e| = t has been compared with 0.0 and rejected
C3_Witness ==
    /\ ZeroCase /\ Finite(xv.f) /\ xv.f.n # 0 /\ Finite(tolv)
    /\ xv.f.n * tolv.d = tolv.n * xv.f.d
    /\ ~res.Ok

\* x == y, or y is infinite (and not both x and y are NaN)
SameOrInfinite ==
    /\ ~(IsNaN(XF) /\ IsNaN(YF))
    /\ \/ IsInf(YF)
       \/ Finite(XF) /\ Finite(YF) /\ SNum(XF) * YF.d = SNum(YF) * XF.d
C5_ZeroToleranceExact ==
    (Done /\ BothReal /\ IsZero(tolv) /\ res.Ok) =>
        \/ IsNaN(XF) /\ IsNaN(YF)
        \/ /\ XF.c = YF.c /\ XF.neg = YF.neg
           /\ XF.n * YF.d = YF.n * XF.d

(***************************************************************************)
(* Claims about the tolerance                                              *)
(***************************************************************************)
RealTol == tolerance.k \in RealKinds
ComplexTol == tolerance.k = "complex128"
\* tolv is the magnitude of the finite real or complex tolerance
IsMagnitude ==
    /\ Finite(tolv)
    /\ RealTol =>
          tolv.n * ToFloat64(tolerance).d = ToFloat64(tolerance).n * tolv.d
    /\ ComplexTol =>
          LET re == tolerance.re
              im == tolerance.im
          IN  tolv.n * tolv.n * re.d * re.d * im.d * im.d
                  = (re.n * re.n * im.d * im.d + im.n * im.n * re.d * re.d) * tolv.d * tolv.d
FiniteTol ==
    \/ RealTol /\ Finite(ToFloat64(tolerance))
    \/ ComplexTol /\ Finite(tolerance.re) /\ Finite(tolerance.im)
InfiniteTol ==
    \/ RealTol /\ IsInf(ToFloat64(tolerance))
    \/ ComplexTol /\ (IsInf(tolerance.re) \/ IsInf(tolerance.im))
NaNTol ==
    \/ RealTol /\ IsNaN(ToFloat64(tolerance))
    \/ ComplexTol /\ ~InfiniteTol /\ (IsNaN(tolerance.re) \/ IsNaN(tolerance.im))
NonNumericTol == ~RealTol /\ ~ComplexTol

\* C6 as claimed: the tolerance is coerced to a non-negative real: the
\* magnitude of a real or complex tolerance, and 0 for a NaN, an infinite or a
\* non-numeric tolerance.
C6_ToleranceCoercionToZero ==
    Done =>
        /\ ~IsNaN(tolv) /\ ~tolv.neg
        /\ FiniteTol => IsMagnitude
        /\ (NaNTol \/ InfiniteTol \/ NonNumericTol) => IsZero(tolv)
\* C6, amended: the tolerance is coerced to a non-negative float64: the
\* magnitude of a real or complex tolerance, 0 for a NaN or a non-numeric
\* tolerance, and +Inf for an infinite tolerance of either sign, under which
\* +Inf is accepted for the expected value 1.
C6_ToleranceCoercion ==
    Done =>
        /\ ~IsNaN(tolv) /\ ~tolv.neg
        /\ FiniteTol => IsMagnitude
        /\ (NaNTol \/ NonNumericTol) => IsZero(tolv)
        /\ InfiniteTol => IsInf(tolv)
        /\ (InfiniteTol /\ xv = VFloat(Inf(FALSE)) /\ yv = VFloat(One)) => res.Ok
\* Equal has run with a negative real, with a complex and with a -Inf tolerance
C6_Witness ==
    /\ Done
    /\ \/ RealTol /\ Finite(ToFloat64(tolerance)) /\ ToFloat64(tolerance).neg /\ tolv.n > 0
       \/ ComplexTol /\ FiniteTol /\ tolerance.re.n > 0 /\ tolerance.im.n > 0
    /\ ~IsZero(tolv)

(***************************************************************************)
(* Sequences                                                               *)
(***************************************************************************)
InitSeq == InitState(Slices \cup Arrays, Slices \cup Arrays, FewTolerances)
SpecSeq == InitSeq /\ [][Next]_vars

BothSeq == xv.k \in {"slice", "array"} /\ xv.k = yv.k
\* the comparison of the i-th elements (1-based) of xv and yv
Elem(i) == equal(xv.e[i], yv.e[i], tolv)
\* the indices (1-based) whose elements do not compare ok
BadElems == {i \in 1..Len(xv.e) : ~Elem(i).Ok}
Least(S) == CHOOSE i \in S : \A j \in S : i <= j

InitStruct == InitState(Structs, Structs, FewTolerances)
SpecStruct == InitStruct /\ [][Next]_vars

BothStruct == Done /\ xv.k = "struct" /\ yv.k = "struct"
SameFieldCount == Len(xv.fields) = Len(yv.fields)
\* the fields (1-based) whose names differ, and those whose values do not
\* compare ok
BadNames == {i \in 1..Len(xv.fields) : xv.names[i] # yv.names[i]}
BadValues == {i \in 1..Len(xv.fields) : ~equal(xv.fields[i], yv.fields[i], tolv).Ok}

InitMap == InitState(Maps, Maps, {Invalid, VFloat(Quarter)})
SpecMap == InitMap /\ [][Next]_vars

BothMap == Done /\ xv.k = "map" /\ yv.k = "map"
\* the permutations of 1..n
Perms(n) == {p \in [1..n -> 1..n] : \A i, j \in 1..n : p[i] = p[j] => i = j}
\* the same Go value with the keys of its maps enumerated in every order
RECURSIVE Reorderings(_)
Reorderings(v) ==
    IF v.k # "map" THEN {v}
    ELSE LET n == Len(v.keys)
             inner == {w \in [1..n -> UNION {Reorderings(v.vals[i]) : i \in 1..n}] :
                          \A i \in 1..n : w[i] \in Reorderings(v.vals[i])}
         IN  {VMap([i \in 1..n |-> v.keys[p[i]]], [i \in 1..n |-> w[p[i]]]) :
                 p \in Perms(n), w \in inner}

Matched(i, j) ==
    /\ equal(xv.keys[i], yv.keys[j], tolv).Ok
    /\ equal(xv.vals[i], yv.vals[j], tolv).Ok
\* C9 as claimed: for maps with the same number of keys, Ok holds iff every
\* key ky of expected has a key kx of actual that the engine compares as equal
\* and whose value compares equal to the value under ky; a key of expected
\* with no matching key gives Ok = false.
C9_MatchedKeys ==
    (BothMap /\ ~res.panic /\ Len(xv.keys) = Len(yv.keys)) =>
        /\ res.Ok <=> \A j \in 1..Len(yv.keys) : \E i \in 1..Len(xv.keys) : Matched(i, j)
        /\ (\E j \in 1..Len(yv.keys) : \A i \in 1..Len(xv.keys) :
                ~equal(xv.keys[i], yv.keys[j], tolv).Ok) => ~res.Ok

(***************************************************************************)
(* Reflexivity                                                             *)
(***************************************************************************)
Scalars == {Invalid, VBool(FALSE), VBool(TRUE), VString("a"), VString("b")}
Values ==
    Scalars \cup RealValues \cup ComplexValues
        \cup Slices \cup Arrays \cup Structs \cup Maps
NonNegTolerances == {Invalid, VFloat(Quarter), VFloat(One), VFloat(Inf(FALSE))}

\* a value against itself, under every tolerance t >= 0
InitRefl ==
    /\ xv \in Values
    /\ yv = xv
    /\ tolerance \in NonNegTolerances
    /\ tolv = PosZero
    /\ res = ZeroResult
    /\ pc = "call"
    /\ now = 0
    /\ prev = ZeroResult
    /\ again = FALSE
    /\ TestIdle
SpecRefl == InitRefl /\ [][Next]_vars

\* C1 as claimed: for every value x and every tolerance t >= 0, Equal(x, x, t)
\* returns Ok = true.
C1_Reflexivity == (Done /\ yv = xv) => (res.Ok /\ ~res.panic)

(***************************************************************************)
(* Values of different shapes                                              *)
(***************************************************************************)
Float64s == <<"float64">>
FuncValues ==
    {VFunc(Float64s, Float64s, "id"), VFunc(Float64s, Float64s, "abs"),
     VFunc(Float64s, Float64s, "nil"),
     VFunc(<<"float64", "float64">>, Float64s, "first"),
     VFunc(Float64s, <<"float64", "float64">>, "dup"),
     VFunc(<<"chan">>, Float64s, "drain")}

ShapeValues ==
    Scalars \cup FuncValues
        \cup {VInt("int", 0), VInt("int", 1), VInt("int64", 1),
              VFloat(PosZero), VFloat(One),
              VComplex(PosZero, PosZero), VComplex(NegZero, PosZero)}
        \cup {VSlice(<<>>), VSlice(<<VFloat(One)>>), VSlice(<<VInt("int", 1)>>),
              VArray(<<VFloat(One)>>), VArray(<<VFloat(One), VFloat(One)>>),
              VSlice(<<VSlice(<<VFloat(One)>>)>>),
              VSlice(<<VStruct(<<"A">>, <<VFloat(One)>>)>>)}
        \cup {VStruct(<<"A">>, <<VFloat(One)>>), VStruct(<<"A">>, <<VInt("int", 1)>>),
              VStruct(<<"A", "B">>, <<VComplex(PosZero, PosZero), VInt("int", 1)>>),
              VStruct(<<"A", "B">>, <<VComplex(NegZero, PosZero), VFloat(One)>>),
              VStruct(<<"A">>, <<VSlice(<<VFloat(One)>>)>>)}
        \cup {VMap(<<>>, <<>>), VMap(<<VString("a")>>, <<VInt("int", 1)>>),
              VMap(<<VString("a")>>, <<VFloat(One)>>),
              VMap(<<VInt("int", 1)>>, <<VInt("int", 1)>>)}

InitShape ==
    /\ xv \in ShapeValues
    /\ yv \in ShapeValues
    /\ tolerance \in {Invalid, VFloat(Quarter)}
    /\ tolv = PosZero
    /\ res = ZeroResult
    /\ pc = "call"
    /\ now \in 0..MaxSeed
    /\ prev = ZeroResult
    /\ again = FALSE
    /\ TestIdle
SpecShape == InitShape /\ [][Next]_vars

\* x and y have the same shape: the same kind and, at every depth, elements,
\* fields, keys and values, parameters and results of the same shape
RECURSIVE SameShape(_, _)
SameShape(x, y) ==
    CASE x.k # y.k -> FALSE
      [] x.k = "slice" /\ y.k = "slice" ->
            \A i \in 1..Len(x.e), j \in 1..Len(y.e) : SameShape(x.e[i], y.e[j])
      [] x.k = "array" /\ y.k = "array" ->
            /\ Len(x.e) = Len(y.e)
            /\ \A i \in 1..Len(x.e), j \in 1..Len(y.e) : SameShape(x.e[i], y.e[j])
      [] x.k = "struct" /\ y.k = "struct" ->
            /\ x.names = y.names
            /\ \A i \in 1..Len(x.fields) : SameShape(x.fields[i], y.fields[i])
      [] x.k = "map" /\ y.k = "map" ->
            \A i \in 1..Len(x.keys), j \in 1..Len(y.keys) :
                SameShape(x.keys[i], y.keys[j]) /\ SameShape(x.vals[i], y.vals[j])
      [] x.k = "func" /\ y.k = "func" -> x.in = y.in /\ x.out = y.out
      [] OTHER -> TRUE

\* C11 as claimed: for every pair of values whose shapes differ (at the top
\* level or at any depth; nil against non-nil included) and every tolerance,
\* Equal returns, without panicking, a result with Ok = false.
C11_ShapeMismatchNoCrash ==
    (Done /\ ~SameShape(xv, yv)) => (~res.panic /\ ~res.Ok)

\* C27: when expected is nil and actual is a valid value, the result is that
\* of comparing actual with the zero value of its own type; when actual is
\* nil the result is Ok = false, whatever expected is.
C27_NilHandling ==
    Done =>
        /\ (IsValid(xv) /\ ~IsValid(yv)) => res = equal(xv, Zero(xv), tolv)
        /\ ~IsValid(xv) => (~res.Ok /\ ~res.panic)

\* nil expected against a zero value (Ok) and against a value that is not
\* the zero value of its type (not Ok)
C27_Witness ==
    /\ Done
    /\ ~IsValid(yv)
    /\ \/ xv = VInt("int", 0) /\ res.Ok
       \/ xv = VInt("int", 1) /\ ~res.Ok /\ res.Numerical

\* the comparison of two functions with a tolerance above zero meets an
\* input type for which no random value can be made
GenerationFails ==
    /\ xv.k = "func"
    /\ yv.k = "func"
    /\ ~IsZero(tolv)
    /\ \E i \in 1..Len(xv.in) : ~Generatable(xv.in[i])

\* C23 as claimed: when no random value can be made for an input type, the
\* failure is propagated as an abort the caller can tell apart from a
\* mismatch; Equal does not return an ordinary result with Ok = false.
C23_GenerationFailureLoud ==
    (Done /\ GenerationFails) => res.panic

(***************************************************************************)
(* Equal on two functions of one signature, with a tolerance above zero    *)
(***************************************************************************)
TrialFuncs ==
    {VFunc(Float64s, Float64s, b) : b \in {"id", "abs", "sq"}}
        \cup {VFunc(Float64s, <<"float64", "float64">>, b) : b \in {"dup", "dupabs"}}
        \cup {VFunc(<<"float64", "float64">>, Float64s, "first")}
        \cup {VFunc(Float64s, <<"complex128">>, b) : b \in {"czero", "cnegzero"}}
        \cup {VFunc(<<>>, <<>>, "noop")}
InitFunc ==
    /\ xv \in TrialFuncs
    /\ yv \in {g \in TrialFuncs : g.in = xv.in /\ g.out = xv.out}
    /\ tolerance \in {VFloat(Quarter), VFloat(One)}
    /\ tolv = PosZero
    /\ res = ZeroResult
    /\ pc = "call"
    /\ now \in 0..MaxSeed
    /\ prev = ZeroResult
    /\ again = FALSE
    /\ TestIdle
SpecFunc == InitFunc /\ [][Next]_vars

\* the arguments generated for trial n (0-based) and the comparison of the
\* i-th results of the two functions on them
TrialArgs(n) == mockArgs(xv, now, n).args
TrialCmp(n, i) == equal(Call(xv, TrialArgs(n))[i], Call(yv, TrialArgs(n))[i], tolv)
\* the trials on which some pair of results does not compare Ok
BadTrials ==
    {n \in 0..(NumTrials - 1) : \E i \in 1..Len(xv.out) : ~TrialCmp(n, i).Ok}
MinOf(S) == CHOOSE n \in S : \A k \in S : n <= k
LastTrial == IF BadTrials = {} THEN NumTrials - 1 ELSE MinOf(BadTrials)

PureValues ==
    Scalars \cup FuncValues \cup InnerMaps \cup NestedMaps
        \cup {VFloat(One), VFloat(OneAndQuarter), VSlice(<<VFloat(One)>>),
              VStruct(<<"A">>, <<VInt("int", 1)>>)}

InitPure ==
    /\ xv \in PureValues
    /\ yv \in PureValues
    /\ tolerance \in {Invalid, VFloat(Quarter)}
    /\ tolv = PosZero
    /\ res = ZeroResult
    /\ pc = "call"
    /\ now \in 0..MaxSeed
    /\ prev = ZeroResult
    /\ again = FALSE
    /\ TestIdle

\* the caller invokes Equal a second time on the same arguments: the clock
\* may have moved on, and the runtime enumerates the keys of the same maps in
\* any order
InvokeAgain ==
    /\ pc = "done"
    /\ ~again
    /\ again' = TRUE
    /\ prev' = res
    /\ pc' = "call"
    /\ now' \in 0..MaxSeed
    /\ xv' \in Reorderings(xv)
    /\ yv' \in Reorderings(yv)
    /\ UNCHANGED <<tolerance, tolv, res>>
    /\ UNCHANGED testVars
    /\ UNCHANGED anyst

NextPure == CallEqual \/ InvokeAgain
SpecPure == InitPure /\ [][NextPure]_vars

\* C12 as claimed: two invocations of Equal on the same arguments return
\* identical results (Ok, Numerical, LengthMismatch, MissingValue, Position
\* and the errors), whatever the order in which map keys are enumerated and
\* whatever the random source produces.
C12_Deterministic == (Done /\ again) => res = prev

(***************************************************************************)
(* Complex numbers                                                         *)
(***************************************************************************)
InitComplex == InitState(ComplexValues, ComplexValues, NonNegTolerances)
SpecComplex == InitComplex /\ [][Next]_vars

BothComplex == Done /\ xv.k = "complex128" /\ yv.k = "complex128"
RealPart == equalFloat(xv.re, yv.re, tolv)
ImagPart == equalFloat(xv.im, yv.im, tolv)

\* C13 as claimed: for every pair of complex numbers and every tolerance,
\* Equal returns a result with Numerical = true, Ok the conjunction of the
\* real-number policy on the real parts and on the imaginary parts, and the
\* errors the complex numbers formed from the two parts' errors.
C13_ComplexComparison ==
    BothComplex =>
        /\ ~res.panic
        /\ res.Numerical
        /\ res.Ok = (RealPart.Ok /\ ImagPart.Ok)
        /\ res.RelativeError = VComplex(RealPart.RelativeError.f, ImagPart.RelativeError.f)
        /\ res.AbsoluteError = VComplex(RealPart.AbsoluteError.f, ImagPart.AbsoluteError.f)

(***************************************************************************)
(* The dispatcher: Test, subtest and handleSubtest                         *)
(***************************************************************************)
\* parseCases returning zero counts with every error
parseCasesZeroCounts(c) ==
    IF ~IsValid(c)
    THEN [ncases |-> 0, nfields |-> 0, err |-> "cases not valid, reflection failed"]
    ELSE IF c.k # "slice"
    THEN [ncases |-> 0, nfields |-> 0, err |-> "wrong kind of argument, want slice"]
    ELSE IF Len(c.e) = 0
    THEN [ncases |-> 0, nfields |-> 0, err |-> "too few cases"]
    ELSE IF c.e[1].k # "struct"
    THEN [ncases |-> 0, nfields |-> 0, err |-> "wrong input type, want []struct"]
    ELSE IF Len(c.e[1].fields) = 0
    THEN [ncases |-> 0, nfields |-> 0, err |-> "too few fields in cases"]
    ELSE IF c.e[1].fields[1].k # "string"
    THEN [ncases |-> 0, nfields |-> 0, err |-> "invalid type for first field"]
    ELSE [ncases |-> Len(c.e), nfields |-> Len(c.e[1].fields), err |-> "nil"]

\* parseCases: the counts and the error (the message, "nil" for none)
parseCases(c) ==
    IF ~IsValid(c)
    THEN [ncases |-> 0, nfields |-> 0, err |-> "cases not valid, reflection failed"]
    ELSE IF c.k # "slice"
    THEN [ncases |-> 0, nfields |-> 0, err |-> "wrong kind of argument, want slice"]
    ELSE IF Len(c.e) = 0
    THEN [ncases |-> 0, nfields |-> 0, err |-> "too few cases"]
    ELSE IF c.e[1].k # "struct"
    THEN [ncases |-> Len(c.e), nfields |-> 0, err |-> "wrong input type, want []struct"]
    ELSE IF Len(c.e[1].fields) = 0
    THEN [ncases |-> Len(c.e), nfields |-> 0, err |-> "too few fields in cases"]
    ELSE IF c.e[1].fields[1].k # "string"
    THEN [ncases |-> Len(c.e), nfields |-> Len(c.e[1].fields),
          err |-> "invalid type for first field"]
    ELSE [ncases |-> Len(c.e), nfields |-> Len(c.e[1].fields), err |-> "nil"]

CaseErrors ==
    {"cases not valid, reflection failed", "wrong kind of argument, want slice",
     "too few cases", "wrong input type, want []struct", "too few fields in cases",
     "invalid type for first field"}

\* parseFuncs: the two functions and the error (the message, "nil" for none)
parseFuncs(fs) ==
    LET l == Len(fs)
    IN  IF l < 1 \/ l > 2
        THEN [func1v |-> Invalid, func2v |-> Invalid, err |-> "wrong number of functions"]
        ELSE IF ~IsValid(fs[1])
        THEN [func1v |-> fs[1], func2v |-> Invalid,
              err |-> "invalid functions, reflection failed"]
        ELSE IF fs[1].k # "func"
        THEN [func1v |-> fs[1], func2v |-> Invalid,
              err |-> "wrong kind of argument, want func"]
        ELSE IF l = 1
        THEN [func1v |-> fs[1], func2v |-> Zero(fs[1]), err |-> "nil"]
        ELSE [func1v |-> fs[1], func2v |-> fs[2], err |-> "nil"]

FuncErrors ==
    {"wrong number of functions", "invalid functions, reflection failed",
     "wrong kind of argument, want func"}

\* reflect.Value.IsNil returns (it panics for the zero Value and for kinds
\* that have no nil)
CanIsNil(v) == v.k \in {"func", "map", "slice", "interface"}
\* reflect.Value.IsNil (the maps and slices of the model are not nil)
IsNil(v) ==
    CASE v.k = "func" -> v.body = "nil"
      [] v.k = "interface" -> ~IsValid(v.dyn)
      [] OTHER -> FALSE

\* the switch of Test with outputs not tolerated when two functions are given
fitsSignatureInputsOnly(nfc, nIn, nOut, oneFunc) ==
    IF oneFunc
    THEN nfc - 1 = nIn + nOut
    ELSE nfc - 1 = nIn

\* the switch of Test on the number of case fields: TRUE if no fatal error
fitsSignature(nfc, nIn, nOut, oneFunc) ==
    IF oneFunc
    THEN nfc - 1 = nIn + nOut
    ELSE nfc - 1 = nIn + nOut \/ nfc - 1 = nIn

\* name(cv)
name(cv) == cv.fields[1].s

\* indirect: the value an interface holds, the value itself otherwise
indirect(v) == IF v.k = "interface" THEN v.dyn ELSE v

\* sliceFrom returns (Field panics beyond the last field)
CanSliceFrom(cv, start, n) == start + n <= Len(cv.fields)
\* sliceFrom(cv, start, n): fields start .. start+n-1 (0-based), indirected
sliceFrom(cv, start, n) == [i \in 1..n |-> indirect(cv.fields[start + i])]

\* expected outputs always read from the case
expectedOutputsFromCase(cv, f2v, in, nIn, nOut) ==
    IF CanSliceFrom(cv, 1 + nIn, nOut) THEN sliceFrom(cv, 1 + nIn, nOut) ELSE <<>>

\* the expected outputs of a case (subtest): the attributes after the inputs
\* with one function, the results of the second function with two
expectedOutputs(cv, f2v, in, nIn, nOut) ==
    IF IsNil(f2v) THEN sliceFrom(cv, 1 + nIn, nOut) ELSE Call(f2v, in)

\* a diagnostic of handleSubtest: the output index, what failed ("length",
\* "field", "key", "unreachable", "value"), where (a field name, a key, an
\* index), the two values and, for a numerical failure, the relative error
Diag(i, what, at, got, want, num, delta) ==
    [idx |-> i, what |-> what, at |-> at, got |-> got, want |-> want,
     numerical |-> num, delta |-> delta]
\* handleSubtest returned nil
NoDiag == Diag(0, "nil", Invalid, Invalid, Invalid, FALSE, Invalid)
\* handleSubtest panicked
PanicDiag == Diag(0, "panic", Invalid, Invalid, Invalid, FALSE, Invalid)

\* handleSubtest on the result r of equal(ri, oi, tol); okeys is oi.MapKeys()
\* as enumerated for the diagnostic
handleSubtest(i, ri, oi, r, okeys) ==
    LET pos == r.Position
        delta == IF r.Numerical THEN r.RelativeError ELSE Invalid
    IN  IF r.panic THEN PanicDiag
        ELSE IF r.Ok THEN NoDiag
        ELSE IF r.LengthMismatch
        THEN Diag(i, "length", Invalid, Invalid, Invalid, FALSE, Invalid)
        ELSE IF r.MissingValue
        THEN CASE oi.k = "struct" ->
                    IF pos >= Len(oi.names) THEN PanicDiag
                    ELSE Diag(i, "field", VString(oi.names[pos + 1]),
                              Invalid, Invalid, FALSE, Invalid)
               [] oi.k = "map" ->
                    IF pos >= Len(okeys) THEN PanicDiag
                    ELSE Diag(i, "key", okeys[pos + 1], Invalid, Invalid, FALSE, Invalid)
               [] OTHER ->
                    Diag(i, "unreachable", Invalid, Invalid, Invalid, FALSE, Invalid)
        ELSE CASE oi.k = "struct" ->
                    IF pos >= Len(oi.names) \/ ri.k # "struct" THEN PanicDiag
                    ELSE IF pos >= Len(ri.fields) THEN PanicDiag
                    ELSE Diag(i, "value", VString(oi.names[pos + 1]),
                              ri.fields[pos + 1], oi.fields[pos + 1], r.Numerical, delta)
               [] oi.k = "map" ->
                    IF pos >= Len(okeys) \/ ri.k # "map" THEN PanicDiag
                    ELSE Diag(i, "value", okeys[pos + 1], MapIndex(ri, okeys[pos + 1]),
                              MapIndex(oi, okeys[pos + 1]), r.Numerical, delta)
               [] oi.k \in {"slice", "array"} ->
                    \* Index also works on a string (a kind mismatch is at Position 0)
                    IF ri.k = "string"
                    THEN IF ri.s = "" \/ pos >= Len(oi.e) THEN PanicDiag
                         ELSE Diag(i, "value", VInt("int", pos),
                                   [k |-> "uint8"], oi.e[pos + 1], r.Numerical, delta)
                    ELSE IF ri.k \notin {"slice", "array"} \/ pos >= Len(oi.e) THEN PanicDiag
                    ELSE IF pos >= Len(ri.e) THEN PanicDiag
                    ELSE Diag(i, "value", VInt("int", pos),
                              ri.e[pos + 1], oi.e[pos + 1], r.Numerical, delta)
               [] OTHER -> Diag(i, "value", Invalid, ri, oi, r.Numerical, delta)

\* one entry of the log: a sub-test started ("run"), a function invoked
\* ("call", who = "f1" or "f2"), t.Error ("error") or t.Fatal ("fatal")
Event(ev, case, who, args, diag, msg) ==
    [ev |-> ev, case |-> case, who |-> who, args |-> args, diag |-> diag, msg |-> msg]
Fatal(msg) == Event("fatal", 0, "", <<>>, NoDiag, msg)

\* Test up to parseCases (part_011:23-27)
TestParseCases ==
    /\ tpc = "test"
    /\ tolv' = validateTolerance(tolerance)
    /\ LET p == parseCases(cases)
       IN  /\ loc' = [loc EXCEPT !.nc = p.ncases, !.nfc = p.nfields, !.err = p.err]
           /\ IF p.err # "nil"
              THEN tpc' = "fatal" /\ log' = Append(log, Fatal(p.err))
              ELSE tpc' = "funcs" /\ log' = log
    /\ UNCHANGED <<cases, funcs, tolerance, now>>
    /\ UNCHANGED engineVars
    /\ UNCHANGED anyst

\* Test: parseFuncs and the signature of the first function (part_011:28-33)
TestParseFuncs ==
    /\ tpc = "funcs"
    /\ LET p == parseFuncs(funcs)
       IN  IF p.err # "nil"
           THEN /\ loc' = [loc EXCEPT !.err = p.err, !.f1v = p.func1v, !.f2v = p.func2v]
                /\ tpc' = "fatal"
                /\ log' = Append(log, Fatal(p.err))
           ELSE /\ loc' = [loc EXCEPT !.err = p.err, !.f1v = p.func1v, !.f2v = p.func2v,
                                      !.nIn = Len(p.func1v.in), !.nOut = Len(p.func1v.out)]
                /\ tpc' = "count"
                /\ log' = log
    /\ UNCHANGED <<cases, funcs, tolerance, tolv, now>>
    /\ UNCHANGED engineVars
    /\ UNCHANGED anyst

\* Test: the switch on f2v.IsNil() (part_011:35-44)
TestCheckCount ==
    /\ tpc = "count"
    /\ IF ~CanIsNil(loc.f2v)
       THEN tpc' = "panic" /\ log' = log
       ELSE IF ~fitsSignature(loc.nfc, loc.nIn, loc.nOut, IsNil(loc.f2v))
       THEN tpc' = "fatal" /\ log' = Append(log, Fatal("wrong number of input/output slices"))
       ELSE tpc' = "loop" /\ log' = log
    /\ UNCHANGED <<cases, funcs, tolerance, tolv, now, loc>>
    /\ UNCHANGED engineVars
    /\ UNCHANGED anyst

\* subtest: t.Run(name(cv), ...) and the inputs (part_011:53-56)
SubtestStart ==
    /\ tpc = "loop"
    /\ loc.i < loc.nc
    /\ LET cv == cases.e[loc.i + 1]
       IN  /\ log' = Append(log, Event("run", loc.i, "", <<>>, NoDiag, name(cv)))
           /\ IF ~CanSliceFrom(cv, 1, loc.nIn)
              THEN tpc' = "panic" /\ loc' = loc
              ELSE /\ tpc' = "expected"
                   /\ loc' = [loc EXCEPT !.in = sliceFrom(cv, 1, loc.nIn),
                                         !.out = <<>>, !.res = <<>>, !.j = 0]
    /\ UNCHANGED <<cases, funcs, tolerance, tolv, now>>
    /\ UNCHANGED engineVars
    /\ UNCHANGED anyst

\* subtest: the expected outputs (part_011:57-61)
SubtestExpected ==
    /\ tpc = "expected"
    /\ LET cv == cases.e[loc.i + 1]
       IN  IF IsNil(loc.f2v)
           THEN /\ log' = log
                /\ IF ~CanSliceFrom(cv, 1 + loc.nIn, loc.nOut)
                   THEN tpc' = "panic" /\ loc' = loc
                   ELSE /\ tpc' = "primary"
                        /\ loc' = [loc EXCEPT !.out =
                                      expectedOutputs(cv, loc.f2v, loc.in, loc.nIn, loc.nOut)]
           ELSE /\ log' = Append(log, Event("call", loc.i, "f2", loc.in, NoDiag, ""))
                /\ IF ~CanCall(loc.f2v, loc.in)
                   THEN tpc' = "panic" /\ loc' = loc
                   ELSE /\ tpc' = "primary"
                        /\ loc' = [loc EXCEPT !.out =
                                      expectedOutputs(cv, loc.f2v, loc.in, loc.nIn, loc.nOut)]
    /\ UNCHANGED <<cases, funcs, tolerance, tolv, now>>
    /\ UNCHANGED engineVars
    /\ UNCHANGED anyst

\* subtest: the function under test is called (part_011:62)
SubtestPrimary ==
    /\ tpc = "primary"
    /\ log' = Append(log, Event("call", loc.i, "f1", loc.in, NoDiag, ""))
    /\ IF ~CanCall(loc.f1v, loc.in)
       THEN tpc' = "panic" /\ loc' = loc
       ELSE tpc' = "compare" /\ loc' = [loc EXCEPT !.res = Call(loc.f1v, loc.in), !.j = 0]
    /\ UNCHANGED <<cases, funcs, tolerance, tolv, now>>
    /\ UNCHANGED engineVars
    /\ UNCHANGED anyst

\* the keys of a map as MapKeys returns them
MapKeys(v) == IF v.k = "map" THEN v.keys ELSE <<>>

\* subtest: one turn of the loop over the outputs (part_011:64-70); the
\* runtime enumerates the keys of maps in any order, in equal and again in
\* handleSubtest
SubtestCompare ==
    /\ tpc = "compare"
    /\ loc.j < loc.nOut
    /\ IF loc.j >= Len(loc.res) \/ loc.j >= Len(loc.out)
       THEN tpc' = "panic" /\ loc' = loc /\ log' = log
       ELSE LET ri == loc.res[loc.j + 1]
                oi == loc.out[loc.j + 1]
            IN  \E r2 \in Reorderings(ri), o2 \in Reorderings(oi), o3 \in Reorderings(oi) :
                    LET d == handleSubtest(loc.j, ri, oi, equal(r2, o2, tolv), MapKeys(o3))
                    IN  IF d.what = "panic"
                        THEN tpc' = "panic" /\ loc' = loc /\ log' = log
                        ELSE /\ tpc' = "compare"
                             /\ loc' = [loc EXCEPT !.j = loc.j + 1]
                             /\ log' = IF d.what = "nil" THEN log
                                       ELSE Append(log, Event("error", loc.i, "", <<>>, d, ""))
    /\ UNCHANGED <<cases, funcs, tolerance, tolv, now>>
    /\ UNCHANGED engineVars
    /\ UNCHANGED anyst

\* subtest returns and Test moves to the next case (part_011:46,71)
SubtestEnd ==
    /\ tpc = "compare"
    /\ loc.j >= loc.nOut
    /\ tpc' = "loop"
    /\ loc' = [loc EXCEPT !.i = loc.i + 1]
    /\ UNCHANGED <<cases, funcs, tolerance, tolv, now, log>>
    /\ UNCHANGED engineVars
    /\ UNCHANGED anyst

\* Test returns after the last case (part_011:46-49)
TestReturn ==
    /\ tpc = "loop"
    /\ loc.i >= loc.nc
    /\ tpc' = "done"
    /\ UNCHANGED <<cases, funcs, tolerance, tolv, now, loc, log>>
    /\ UNCHANGED engineVars
    /\ UNCHANGED anyst

NextTest ==
    \/ TestParseCases
    \/ TestParseFuncs
    \/ TestCheckCount
    \/ SubtestStart
    \/ SubtestExpected
    \/ SubtestPrimary
    \/ SubtestCompare
    \/ SubtestEnd
    \/ TestReturn

\* Test(t, tolerance, cases, funcs...) is called
InitTest(Tables, FuncLists, T) ==
    /\ cases \in Tables
    /\ funcs \in FuncLists
    /\ tolerance \in T
    /\ tolv = PosZero
    /\ now = 0
    /\ tpc = "test"
    /\ loc = NoLocals
    /\ log = <<>>
    /\ anyst = AnyIdle
    /\ xv = Invalid
    /\ yv = Invalid
    /\ res = ZeroResult
    /\ pc = "idle"
    /\ prev = ZeroResult
    /\ again = FALSE

(***************************************************************************)
(* Case tables and functions handed to Test                                *)
(***************************************************************************)
Num(i) == VFloat(FromInt(i))
AttrNames == <<"Label", "A1", "A2", "A3">>

\* the cases whose i-th attribute after the label is drawn from attrs[i]
CasesOf(attrs) ==
    LET n == Len(attrs)
        rows == {r \in [1..n -> UNION {attrs[i] : i \in 1..n}] :
                    \A i \in 1..n : r[i] \in attrs[i]}
    IN  {VStruct(SubSeq(AttrNames, 1, n + 1), <<VString("square")>> \o r) : r \in rows}

\* the tables of 1..MaxCases such cases
TablesOf(attrs) ==
    {VSlice(c) : c \in UNION {[1..m -> CasesOf(attrs)] : m \in 1..MaxCases}}

IOTables == TablesOf(<<{Num(1), Num(2)}, {Num(1), Num(4), Num(5)}>>)
InTables == TablesOf(<<{Num(1), Num(2), Num(-2)}>>)
IOOTables == TablesOf(<<{Num(2)}, {Num(2), Num(3)}, {Num(4), Num(5)}>>)
IIOTables == TablesOf(<<{Num(1)}, {Num(2)}, {Num(1), Num(2)}>>)
ComplexTables ==
    TablesOf(<<{Num(1)}, {VComplex(PosZero, PosZero), VComplex(NegZero, PosZero),
                          VComplex(One, PosZero)}>>)
SliceTables == TablesOf(<<{Num(1)}, {VSlice(<<>>), VSlice(<<Num(1)>>)}>>)
RunTables ==
    IOTables \cup InTables \cup IOOTables \cup IIOTables \cup ComplexTables \cup SliceTables

Id == VFunc(Float64s, Float64s, "id")
Sq == VFunc(Float64s, Float64s, "sq")
AbsF == VFunc(Float64s, Float64s, "abs")
Dup == VFunc(Float64s, <<"float64", "float64">>, "dup")
First == VFunc(<<"float64", "float64">>, Float64s, "first")
CZero == VFunc(Float64s, <<"complex128">>, "czero")
Noop == VFunc(<<>>, <<>>, "noop")
NilFunc == VFunc(Float64s, Float64s, "nil")

TestFuncs == {Id, Sq, AbsF, Dup, First, CZero}
\* one function, or two functions of one signature
RunFuncs ==
    {<<f>> : f \in TestFuncs}
        \cup {p \in TestFuncs \X TestFuncs : p[1].in = p[2].in /\ p[1].out = p[2].out}

InitRun == InitTest(RunTables, RunFuncs, {Invalid, VFloat(Quarter)})
SpecRun == InitRun /\ [][NextTest]_vars

ACase == VStruct(<<"Label", "A1">>, <<VString("square"), Num(1)>>)
BadTables ==
    {Invalid, VInt("int", 1), ACase, VArray(<<ACase>>), VSlice(<<>>),
     VSlice(<<Num(1)>>), VSlice(<<VMap(<<VString("Label")>>, <<VString("1")>>)>>),
     VSlice(<<VIface(ACase)>>),
     VSlice(<<VStruct(<<>>, <<>>)>>), VSlice(<<VStruct(<<>>, <<>>), VStruct(<<>>, <<>>)>>),
     VSlice(<<VStruct(<<"In", "Out">>, <<Num(1), Num(2)>>)>>),
     VSlice(<<VStruct(<<"Label">>, <<VIface(VString("square"))>>)>>)}
GoodTables ==
    {VSlice(<<VStruct(<<"Label">>, <<VString("square")>>)>>),
     VSlice(<<ACase>>), VSlice(<<ACase, ACase>>),
     VSlice(<<VStruct(<<"Label", "A1", "A2">>, <<VString("square"), Num(2), Num(4)>>)>>),
     VSlice(<<VStruct(<<"Label", "A1", "A2", "A3">>,
                      <<VString("square"), Num(2), Num(2), Num(4)>>)>>)}
ConfigTables == BadTables \cup GoodTables

\* what a caller may pass for a function: functions, the nil function, nil,
\* and values that are not functions
FuncPool ==
    {Id, First, Dup, Noop, NilFunc, Invalid, VInt("int", 1),
     VMap(<<VString("a")>>, <<VInt("int", 1)>>)}
ConfigFuncs == SeqsUpTo(FuncPool, 3)

InitConfig == InitTest(ConfigTables, ConfigFuncs, {VFloat(Quarter)})
SpecConfig == InitConfig /\ [][NextTest]_vars

(***************************************************************************)
(* Validation before dispatch                                              *)
(***************************************************************************)
TableOK == parseCases(cases).err = "nil"
IsFunc(f) == f.k = "func"
Callable(f) == f.k = "func" /\ f.body # "nil"
\* the number of fields of a case, and of inputs and outputs of the first function
F == Len(cases.e[1].fields)
In == Len(funcs[1].in)
Out == Len(funcs[1].out)
\* the attribute-count contract
Fits ==
    IF Len(funcs) = 1 THEN F - 1 = In + Out ELSE (F - 1 = In \/ F - 1 = In + Out)

IsRun(e) == e.ev = "run"
IsCall(e) == e.ev = "call"
IsError(e) == e.ev = "error"
IsFatal(e) == e.ev = "fatal"
Runs == SelectSeq(log, IsRun)
Calls == SelectSeq(log, IsCall)

\* the table, the functions or the attribute count are wrong
Misconfigured ==
    IF ~TableOK THEN TRUE
    ELSE IF Len(funcs) \notin {1, 2} THEN TRUE
    ELSE IF \E i \in 1..Len(funcs) : ~IsFunc(funcs[i]) THEN TRUE
    ELSE ~Fits

\* C14 as claimed: if the case table is malformed, the number or kind of the
\* supplied functions is wrong, or the attribute count does not fit the
\* function's signature, Test reports a fatal error and returns before any
\* sub-test is started and before any function is invoked (it never panics
\* and never runs a case).
C14_FailFast ==
    (tpc # "idle" /\ Misconfigured) =>
        /\ tpc \in {"test", "funcs", "count", "fatal"}
        /\ Runs = <<>>
        /\ Calls = <<>>

\* parseFuncs has returned
ParsedFuncs == tpc \notin {"idle", "test", "funcs"} /\ loc.err \notin CaseErrors

\* C15 as claimed: parseFuncs returns a non-nil error whenever fewer than 1 or
\* more than 2 functions are supplied or any supplied function, the first or
\* the second, is nil or not a function, and a nil error exactly when 1 or 2
\* functions are supplied; with one function the second returned value is
\* the nil function of the first one's type.
C15_FunctionValidation ==
    ParsedFuncs =>
        /\ (loc.err = "nil") <=>
               (Len(funcs) \in {1, 2} /\ \A i \in 1..Len(funcs) : IsFunc(funcs[i]))
        /\ (loc.err = "nil" /\ Len(funcs) = 1) => loc.f2v = Zero(funcs[1])

\* the table is well formed and one or two callable functions are supplied
Validated ==
    /\ TableOK
    /\ Len(funcs) \in {1, 2}
    /\ \A i \in 1..Len(funcs) : Callable(funcs[i])
CountChecked == tpc \notin {"idle", "test", "funcs", "count"}
RunStates == {"loop", "expected", "primary", "compare", "done", "panic"}

\* C16: with F the number of case fields and In, Out the numbers of inputs
\* and outputs of the first function, Test goes on to run the cases iff
\* F-1 = In+Out (one function) or F-1 = In or F-1 = In+Out (two functions);
\* otherwise it stops with a fatal error, having run no case.
C16_AttributeCount ==
    (Validated /\ CountChecked) =>
        /\ Fits => (tpc \in RunStates /\ SelectSeq(log, IsFatal) = <<>>)
        /\ ~Fits => (tpc = "fatal" /\ Runs = <<>> /\ Calls = <<>>
                        /\ log = <<Fatal("wrong number of input/output slices")>>)

\* two functions, cases that carry the outputs as well, all cases run
C16_Witness ==
    /\ Validated
    /\ Len(funcs) = 2
    /\ Out > 0
    /\ F - 1 = In + Out
    /\ tpc = "done"
    /\ Len(Runs) = Len(cases.e)

\* parseCases has returned, with an error or without
ParsedCases == tpc \notin {"idle", "test"}
CasesFailed == tpc = "fatal" /\ loc.err \in CaseErrors

ValidRun == Validated /\ Fits
Stopped == tpc \in {"done", "panic", "fatal"}

\* the positions in the log of the entries of case c
Entries(c) == {k \in 1..Len(log) : log[k].ev # "fatal" /\ log[k].case = c}

\* C18 as claimed: for a valid table of n cases Test runs exactly n
\* sub-tests, one per case, in table order, everything a case does coming
\* before the next case begins; a failing comparison in one case never
\* prevents the later cases from running.
C18_AllCasesRunInOrder ==
    (ValidRun /\ Stopped) =>
        /\ Len(Runs) = Len(cases.e)
        /\ \A k \in 1..Len(Runs) : Runs[k].case = k - 1
        /\ \A c \in 0..(Len(cases.e) - 1) :
               \A k1 \in Entries(c) : \A k2 \in Entries(c + 1) : k1 < k2

\* the inputs of case c (0-based) and the outputs compared in it
InputsOf(c) == sliceFrom(cases.e[c + 1], 1, In)
ActualOf(c) == Call(funcs[1], InputsOf(c))
ExpectedOf(c) ==
    IF Len(funcs) = 2 THEN Call(funcs[2], InputsOf(c))
    ELSE sliceFrom(cases.e[c + 1], 1 + In, Out)
\* the comparison of output j (0-based) of case c is not Ok
NotOk(c, j) == ~equal(ActualOf(c)[j + 1], ExpectedOf(c)[j + 1], tolv).Ok
Diagnostics(c, j) ==
    {k \in 1..Len(log) : log[k].ev = "error" /\ log[k].case = c /\ log[k].diag.idx = j}

\* C19 as claimed: in every case every output position is compared; exactly
\* one diagnostic is emitted for each output position whose comparison is
\* not Ok and none for the others, each naming its output index; a numeric
\* mismatch against a nonzero finite expected value is reported with a
\* nonzero relative error.
C19_OneDiagnosticPerBadOutput ==
    (ValidRun /\ Stopped) =>
        /\ \A k \in 1..Len(Runs) : \A j \in 0..(Out - 1) :
               Cardinality(Diagnostics(Runs[k].case, j))
                   = IF NotOk(Runs[k].case, j) THEN 1 ELSE 0
        /\ \A k \in 1..Len(log) :
               (/\ log[k].ev = "error"
                /\ log[k].diag.what = "value"
                /\ log[k].diag.numerical
                /\ log[k].diag.want.k = "float64"
                /\ Finite(log[k].diag.want.f)
                /\ ~IsZero(log[k].diag.want.f))
               => (log[k].diag.delta.k = "float64" /\ ~IsZero(log[k].diag.delta.f))

\* the invocations a case makes: the second function (if there is one), then
\* the first, each with the inputs of the case
Protocol(c) ==
    IF Len(funcs) = 2
    THEN <<Event("call", c, "f2", InputsOf(c), NoDiag, ""),
           Event("call", c, "f1", InputsOf(c), NoDiag, "")>>
    ELSE <<Event("call", c, "f1", InputsOf(c), NoDiag, "")>>
IsPrefix(a, b) == Len(a) <= Len(b) /\ a = SubSeq(b, 1, Len(a))
\* the calls of the cases so far, one case after the other
RECURSIVE ProtocolUpTo(_)
ProtocolUpTo(c) == IF c < 0 THEN <<>> ELSE ProtocolUpTo(c - 1) \o Protocol(c)

\* C20: in every case the first function is invoked exactly once, with the
\* first In attributes after the label; with two functions the second is
\* invoked exactly once, before the first, with the same inputs, and the
\* expected outputs are its results whatever the case carries after the
\* inputs; with one function no second function is invoked and the expected
\* outputs are the attributes after the inputs.
C20_InvocationProtocol ==
    (ValidRun /\ tpc \in RunStates) =>
        /\ IsPrefix(Calls, ProtocolUpTo(Len(cases.e) - 1))
        /\ tpc = "compare" =>
               /\ Calls = ProtocolUpTo(loc.i)
               /\ loc.in = InputsOf(loc.i)
               /\ loc.res = ActualOf(loc.i)
               /\ loc.out = ExpectedOf(loc.i)
        /\ tpc = "done" => Calls = ProtocolUpTo(Len(cases.e) - 1)

\* two functions and a case whose attributes after the inputs are not what
\* the second function returns
C20_Witness ==
    /\ ValidRun
    /\ tpc = "compare"
    /\ Len(funcs) = 2
    /\ F - 1 = In + Out
    /\ loc.out # sliceFrom(cases.e[loc.i + 1], 1 + In, Out)
    /\ loc.out = Call(funcs[2], loc.in)

(***************************************************************************)
(* Test on functions that return maps, structs, slices and interfaces      *)
(***************************************************************************)
MkMap == VFunc(Float64s, <<"map">>, "mkmap")
MkStruct == VFunc(Float64s, <<"struct">>, "mkstruct")
MkStructs == VFunc(Float64s, <<"slice">>, "mkstructs")
Boxed == VFunc(Float64s, <<"interface">>, "boxed")
BoxNil == VFunc(Float64s, <<"interface">>, "boxnil")
OutFuncs == {Id, MkMap, MkStruct, MkStructs, Boxed, BoxNil}

IntMap(keys, vals) ==
    VMap([i \in 1..Len(keys) |-> VString(keys[i])], [i \in 1..Len(vals) |-> VInt("int", vals[i])])
IntStruct(names, vals) == VStruct(names, [i \in 1..Len(vals) |-> VInt("int", vals[i])])
\* what a case expects of the one output: maps, structs, slices of structs,
\* numbers, and nil or a number in an attribute of interface type
OutValues ==
    {IntMap(<<"a", "b">>, <<1, 2>>), IntMap(<<"a", "b">>, <<1, 3>>),
     IntMap(<<"a", "c">>, <<1, 2>>), IntMap(<<"a">>, <<1>>),
     IntStruct(<<"A", "B">>, <<1, 2>>), IntStruct(<<"A", "B">>, <<1, 3>>),
     IntStruct(<<"A", "C">>, <<1, 2>>),
     VSlice(<<IntStruct(<<"A">>, <<1>>)>>), VSlice(<<IntStruct(<<"B">>, <<1>>)>>),
     Num(1), Num(2), VIface(Num(1)), VIface(Invalid)}
OutTables == TablesOf(<<{Num(1)}, OutValues>>)
OutFuncLists ==
    {<<f>> : f \in OutFuncs}
        \cup {p \in OutFuncs \X OutFuncs : p[1].in = p[2].in /\ p[1].out = p[2].out}

InitOut == InitTest(OutTables, OutFuncLists, {Invalid, VFloat(Quarter)})
SpecOut == InitOut /\ [][NextTest]_vars

\* output j of case c: the actual and the expected value have different shapes
ShapeMismatch(c, j) ==
    /\ IsValid(ExpectedOf(c)[j + 1])
    /\ ~SameShape(ActualOf(c)[j + 1], ExpectedOf(c)[j + 1])

\* C21 as claimed: when an actual output and its expected output have
\* different shapes, Test emits a diagnostic for that output position and
\* goes on with the remaining outputs and cases, without panicking.
C21_ShapeMismatchReported ==
    (ValidRun /\ Stopped) =>
        \A c \in 0..(Len(cases.e) - 1) : \A j \in 0..(Out - 1) :
            ShapeMismatch(c, j) =>
                (tpc = "done" /\ Cardinality(Diagnostics(c, j)) = 1)

\* key is a key of expected that is missing in actual
MissingIn(actual, expected, key) ==
    /\ IsValid(MapIndex(expected, key))
    /\ ~IsValid(MapIndex(actual, key))
\* key is a key of both whose values do not compare Ok
MismatchAt(actual, expected, key) ==
    /\ IsValid(MapIndex(expected, key))
    /\ IsValid(MapIndex(actual, key))
    /\ ~equal(MapIndex(actual, key), MapIndex(expected, key), tolv).Ok

\* C22 as claimed: when a map-valued output fails on a key, the key named
\* in the diagnostic is a key at which the comparison fails, whatever the
\* order in which the keys of the map are enumerated: a key reported
\* missing is missing in actual, a key reported with two values has values
\* that do not compare Ok.
C22_DiagnosticKey ==
    ValidRun =>
        \A k \in 1..Len(log) :
            LET e == log[k]
                actual == ActualOf(e.case)[e.diag.idx + 1]
                expected == ExpectedOf(e.case)[e.diag.idx + 1]
            IN  (IsError(e) /\ actual.k = "map" /\ expected.k = "map") =>
                    /\ e.diag.what = "key" => MissingIn(actual, expected, e.diag.at)
                    /\ e.diag.what = "value" => MismatchAt(actual, expected, e.diag.at)

\* the value a function result holds
Dyn(v) == IF v.k = "interface" THEN v.dyn ELSE v
\* every expected attribute of case c holds exactly what the function returns
PassThrough(c) ==
    \A j \in 1..Out : Dyn(ActualOf(c)[j]) = ExpectedOf(c)[j]

\* C28 as claimed: with one function, a case whose expected attributes hold
\* exactly the values the function returns emits no diagnostic (and does not
\* panic), whatever the declared return type, interface types included.
C28_PassThrough ==
    (ValidRun /\ Len(funcs) = 1) =>
        /\ \A k \in 1..Len(log) : IsError(log[k]) => ~PassThrough(log[k].case)
        /\ (tpc = "panic" /\ loc.i < Len(cases.e)) => ~PassThrough(loc.i)

\* C29 as claimed: the fallback diagnostic "Should never reach here" is
\* never emitted: a result with MissingValue = true reaches handleSubtest
\* only with an expected output that is itself a struct or a map.
C29_FallbackUnreachable ==
    \A k \in 1..Len(log) : IsError(log[k]) => log[k].diag.what # "unreachable"

(***************************************************************************)
(* Any and All                                                             *)
(***************************************************************************)
\* notf of All: one parameter of type interface{}, one bool result
NotF == VFunc(<<"interface">>, <<"bool">>, "notf")

\* Any before its deferred recover is installed: the error returned, "nil"
\* to go on, or "panic" (Out(0) of a function without results)
anyCheck(fv, nArg) ==
    IF fv.k # "func" THEN "wrong input type"
    ELSE IF Len(fv.out) = 0 THEN "panic"
    ELSE IF fv.out[1] # "bool" THEN "wrong output type"
    ELSE IF nArg # Len(fv.in) THEN "wrong number of input slices"
    ELSE IF Len(fv.out) # 1 THEN "wrong number of output slices"
    ELSE "nil"

\* reflect.ValueOf(xs[0]).Len()
anyLen(xs) ==
    IF Len(xs) = 0 THEN [panic |-> TRUE, l |-> 0]
    ELSE IF xs[1].k \notin {"slice", "array"} THEN [panic |-> TRUE, l |-> 0]
    ELSE [panic |-> FALSE, l |-> Len(xs[1].e)]

\* the arguments of the call at index 0 whatever the index
anyArgsFirst(xs, i) ==
    IF \E j \in 1..Len(xs) : xs[j].k \notin {"slice", "array"} \/ 0 >= Len(xs[j].e)
    THEN [panic |-> TRUE, args |-> <<>>]
    ELSE [panic |-> FALSE, args |-> [j \in 1..Len(xs) |-> indirect(xs[j].e[1])]]

\* the arguments of the call at index i: indirect(xv.Index(i)) of every slice
anyArgs(xs, i) ==
    IF \E j \in 1..Len(xs) : xs[j].k \notin {"slice", "array"} \/ i >= Len(xs[j].e)
    THEN [panic |-> TRUE, args |-> <<>>]
    ELSE [panic |-> FALSE, args |-> [j \in 1..Len(xs) |-> indirect(xs[j].e[i + 1])]]

\* fv.Call(args)[0].Interface().(bool); fv is f itself or, through All, notf,
\* which calls f on its argument and negates the bool it returns. called:
\* the body of f has been entered
anyCall(via, f, args) ==
    IF \E j \in 1..Len(args) : ~IsValid(args[j])
    THEN [panic |-> TRUE, called |-> FALSE, val |-> FALSE]
    ELSE IF ~CanCall(f, args) THEN [panic |-> TRUE, called |-> FALSE, val |-> FALSE]
    ELSE IF Panics(f, args) THEN [panic |-> TRUE, called |-> TRUE, val |-> FALSE]
    ELSE IF Len(f.out) = 0 \/ Call(f, args)[1].k # "bool"
    THEN [panic |-> TRUE, called |-> TRUE, val |-> FALSE]
    ELSE [panic |-> FALSE, called |-> TRUE,
          val |-> IF via = "All" THEN ~Call(f, args)[1].b ELSE Call(f, args)[1].b]

\* what All returns, not negating what Any reports
allResultPlain(notOk, err) == [ok |-> notOk, err |-> err]

\* what All returns after Any(notf, xs...) has returned (notOk, err)
allResult(notOk, err) ==
    IF err # "nil" THEN [ok |-> FALSE, err |-> err] ELSE [ok |-> ~notOk, err |-> err]

\* where Any returns to
AnyReturnsTo == IF anyst.via = "All" THEN "allret" ELSE "done"

\* All builds notf and calls Any(notf, xs...)
AllEnter ==
    /\ anyst.pc = "all"
    /\ anyst' = [anyst EXCEPT !.pc = "any"]
    /\ UNCHANGED <<tolerance, tolv, now>>
    /\ UNCHANGED engineVars
    /\ UNCHANGED testVars

\* Any up to its loop: the checks of f, the deferred recover, the length
AnyEnter ==
    /\ anyst.pc = "any"
    /\ LET fv == IF anyst.via = "All" THEN NotF ELSE anyst.f
           c == anyCheck(fv, Len(anyst.xs))
           n == anyLen(anyst.xs)
       IN  anyst' =
               IF c = "panic" THEN [anyst EXCEPT !.pc = "panic"]
               ELSE IF c # "nil" THEN [anyst EXCEPT !.pc = AnyReturnsTo, !.err = c]
               ELSE IF n.panic THEN [anyst EXCEPT !.pc = AnyReturnsTo, !.err = "recovered"]
               ELSE [anyst EXCEPT !.pc = "loop", !.l = n.l, !.i = 0]
    /\ UNCHANGED <<tolerance, tolv, now>>
    /\ UNCHANGED engineVars
    /\ UNCHANGED testVars

\* one turn of the loop of Any
AnyStep ==
    /\ anyst.pc = "loop"
    /\ anyst.i < anyst.l
    /\ LET a == anyArgs(anyst.xs, anyst.i)
           r == anyCall(anyst.via, anyst.f, a.args)
       IN  anyst' =
               IF a.panic THEN [anyst EXCEPT !.pc = AnyReturnsTo, !.err = "recovered"]
               ELSE IF r.panic
               THEN [anyst EXCEPT !.pc = AnyReturnsTo, !.err = "recovered",
                                  !.calls = IF r.called THEN Append(@, a.args) ELSE @]
               ELSE IF r.val
               THEN [anyst EXCEPT !.pc = AnyReturnsTo, !.ok = TRUE,
                                  !.calls = Append(@, a.args)]
               ELSE [anyst EXCEPT !.i = @ + 1, !.calls = Append(@, a.args)]
    /\ UNCHANGED <<tolerance, tolv, now>>
    /\ UNCHANGED engineVars
    /\ UNCHANGED testVars

\* Any returns after the last index
AnyReturn ==
    /\ anyst.pc = "loop"
    /\ anyst.i >= anyst.l
    /\ anyst' = [anyst EXCEPT !.pc = AnyReturnsTo]
    /\ UNCHANGED <<tolerance, tolv, now>>
    /\ UNCHANGED engineVars
    /\ UNCHANGED testVars

\* All returns
AllReturn ==
    /\ anyst.pc = "allret"
    /\ LET r == allResult(anyst.ok, anyst.err)
       IN  anyst' = [anyst EXCEPT !.pc = "done", !.aok = r.ok, !.aerr = r.err]
    /\ UNCHANGED <<tolerance, tolv, now>>
    /\ UNCHANGED engineVars
    /\ UNCHANGED testVars

NextAny == AllEnter \/ AnyEnter \/ AnyStep \/ AnyReturn \/ AllReturn

IntKind == <<"int">>
\* what a caller may pass for f: predicates, functions that are not
\* predicates, the nil function, and values that are not functions
AnyFuncs ==
    {VFunc(IntKind, <<"bool">>, b) : b \in {"pos", "boom", "nil"}}
        \cup {VFunc(<<"int", "int">>, <<"bool">>, "lt"), VFunc(<<>>, <<"bool">>, "ready"),
              VFunc(Float64s, <<"bool">>, "fpos"), VFunc(IntKind, <<"bool", "bool">>, "two"),
              VFunc(IntKind, IntKind, "toint"), VFunc(IntKind, <<>>, "noret"),
              Invalid, VInt("int", 1)}
IntSlices == {VSlice(e) : e \in SeqsUpTo({VInt("int", n) : n \in {-1, 0, 1}}, MaxLen)}
AnyArgLists == SeqsUpTo(IntSlices \cup {VInt("int", 1), Invalid}, 2)

InitAny ==
    /\ \E v \in {"Any", "All"}, f \in AnyFuncs, xs \in AnyArgLists :
           anyst = [AnyIdle EXCEPT !.pc = IF v = "All" THEN "all" ELSE "any",
                                   !.via = v, !.f = f, !.xs = xs]
    /\ cases = Invalid
    /\ funcs = <<>>
    /\ tpc = "idle"
    /\ loc = NoLocals
    /\ log = <<>>
    /\ tolerance = Invalid
    /\ tolv = PosZero
    /\ now = 0
    /\ xv = Invalid
    /\ yv = Invalid
    /\ res = ZeroResult
    /\ pc = "idle"
    /\ prev = ZeroResult
    /\ again = FALSE
SpecAny == InitAny /\ [][NextAny]_vars

\* f returns one bool and there is one slice per parameter of f
Predicate ==
    /\ anyst.f.k = "func"
    /\ anyst.f.body # "nil"
    /\ anyst.f.out = <<"bool">>
    /\ Len(anyst.xs) = Len(anyst.f.in)
    /\ Len(anyst.xs) >= 1
    /\ \A j \in 1..Len(anyst.xs) : anyst.xs[j].k = "slice"
\* the i-th elements (0-based) of the slices
Tuple(i) == [j \in 1..Len(anyst.xs) |-> anyst.xs[j].e[i + 1]]
\* f can be applied at index i: every slice has an i-th element, of the
\* type of the parameter, and f does not panic on them
Applies(i) ==
    /\ \A j \in 1..Len(anyst.xs) :
           i < Len(anyst.xs[j].e) /\ anyst.xs[j].e[i + 1].k = anyst.f.in[j]
    /\ ~Panics(anyst.f, Tuple(i))
TrueAt(i) == Applies(i) /\ Call(anyst.f, Tuple(i))[1].b
Indices == 0..(Len(anyst.xs[1].e) - 1)
\* f can be applied at every index up to the first at which it is true
Applicable ==
    \A i \in Indices : ~Applies(i) => \E k \in Indices : k < i /\ TrueAt(k)
\* the invocations at indices 0..n
RECURSIVE TuplesTo(_)
TuplesTo(n) == IF n < 0 THEN <<>> ELSE Append(TuplesTo(n - 1), Tuple(n))
FirstTrue == CHOOSE i \in Indices : TrueAt(i) /\ \A k \in Indices : TrueAt(k) => i <= k

\* C25: for a function f returning one bool and as many slices as f has
\* parameters, Any returns (true, nil) iff f is true at some index of the
\* slices and (false, nil) otherwise, in particular for empty slices; the
\* indices are tried in increasing order and f is not invoked after the
\* first index at which it is true.
C25_Any ==
    (anyst.via = "Any" /\ anyst.pc = "done" /\ Predicate /\ Applicable) =>
        /\ anyst.err = "nil"
        /\ anyst.ok <=> \E i \in Indices : TrueAt(i)
        /\ anyst.calls =
               IF \E i \in Indices : TrueAt(i) THEN TuplesTo(FirstTrue)
               ELSE TuplesTo(Len(anyst.xs[1].e) - 1)

\* f is false at index 0 and true at index 1: two invocations, none after
C25_Witness ==
    /\ anyst.via = "Any"
    /\ anyst.pc = "done"
    /\ Predicate
    /\ Applicable
    /\ Len(anyst.xs[1].e) = 2
    /\ ~TrueAt(0)
    /\ TrueAt(1)
    /\ anyst.ok
    /\ Len(anyst.calls) = 2

\* f is a predicate of one parameter and xs is one slice
UnaryPredicate ==
    /\ anyst.f.k = "func"
    /\ anyst.f.body # "nil"
    /\ Len(anyst.f.in) = 1
    /\ anyst.f.out = <<"bool">>
    /\ Len(anyst.xs) = 1
    /\ anyst.xs[1].k = "slice"
\* f can be applied to every element up to the first on which it is false
ApplicableToAll ==
    \A i \in Indices : ~Applies(i) => \E k \in Indices : k < i /\ Applies(k) /\ ~TrueAt(k)

\* C26: All(f, xs) is the negation of what Any reports for the negation of
\* f: when Any reports an error All returns that error with ok = false,
\* otherwise no error and the negation of Any's ok; for a predicate f of one
\* parameter and a slice xs, All returns (true, nil) iff f is true for every
\* element of xs, (true, nil) for the empty slice.
C26_All ==
    (anyst.via = "All" /\ anyst.pc = "done") =>
        /\ anyst.aerr = anyst.err
        /\ anyst.err # "nil" => ~anyst.aok
        /\ anyst.err = "nil" => (anyst.aok <=> ~anyst.ok)
        /\ (UnaryPredicate /\ ApplicableToAll) =>
               /\ anyst.aerr = "nil"
               /\ anyst.aok <=> \A i \in Indices : TrueAt(i)

\* f is true for the first element and false for the second
C26_Witness ==
    /\ anyst.via = "All"
    /\ anyst.pc = "done"
    /\ UnaryPredicate
    /\ ApplicableToAll
    /\ Len(anyst.xs[1].e) = 2
    /\ TrueAt(0)
    /\ ~TrueAt(1)
    /\ ~anyst.aok
    /\ anyst.aerr = "nil"

\* the arguments of Any are not valid: f is not a function, has no or more
\* than one result or a result that is not a bool, the number of slices is
\* not the number of parameters of f or there is none, the slices have
\* different lengths, or f has panicked
BadArguments ==
    IF anyst.f.k # "func" THEN TRUE
    ELSE IF anyst.f.out # <<"bool">> THEN TRUE
    ELSE IF Len(anyst.xs) # Len(anyst.f.in) \/ Len(anyst.xs) = 0 THEN TRUE
    ELSE IF \E j, k \in 1..Len(anyst.xs) :
                /\ anyst.xs[j].k = "slice"
                /\ anyst.xs[k].k = "slice"
                /\ Len(anyst.xs[j].e) # Len(anyst.xs[k].e)
    THEN TRUE
    ELSE \E n \in 1..Len(anyst.calls) : Panics(anyst.f, anyst.calls[n])

\* C30 as claimed: Any reports every invalid-argument condition as a
\* returned non-nil error with ok = false and never panics.
C30_AnyNeverPanics ==
    (anyst.via = "Any" /\ anyst.pc \in {"done", "panic"} /\ BadArguments) =>
        (anyst.pc = "done" /\ anyst.err # "nil" /\ ~anyst.ok)

(***************************************************************************)
(* The engine on all the inputs above                                      *)
(***************************************************************************)
Init == InitNum \/ InitTol \/ InitSeq \/ InitStruct \/ InitMap \/ InitRefl
Spec == Init /\ [][Next]_vars

=============================================================================
